---- MODULE Spec2Model ----
(***************************************************************************)
(* Personal finance manager: the entity store (categories, transactions,  *)
(* budgets), the request handlers that read and write it, and the budget   *)
(* status aggregation.                                                     *)
(*                                                                         *)
(* Conventions.                                                            *)
(*   - A table is a function from the primary key (serial id) to the row.  *)
(*   - A calendar date, as the store keeps it ('YYYY-MM-DD'), is the       *)
(*     integer yyyymmdd: the order of these integers is the order of the   *)
(*     ISO strings that the store compares.                                *)
(*   - A JavaScript Date at midnight is a record [y, m, d]; the process    *)
(*     time zone is UTC, so local and UTC calendar fields coincide.        *)
(*   - NULL stands for SQL NULL in a nullable integer or date column; no   *)
(*     id and no date is ever 0.                                           *)
(***************************************************************************)
EXTENDS Integers, Sequences, FiniteSets, TLC

\* ------------------------------------------------------------------ bounds

\* Number of rows ever inserted in each table (the serial ids handed out),
\* and over the three tables together.
MaxCategories == 2
MaxTransactions == 2
MaxBudgets == 1
MaxRows == 4

\* Number of budgets ever inserted when createBudget runs statement by
\* statement alongside deleteCategory.
MaxConcurrentBudgets == 2

\* Number of optional fields one partial-update input supplies.
MaxUpdateFields == 1

\* The latest reading of the clock, in milliseconds, and the number of rows
\* ever inserted, over the three tables, while the clock runs.
MaxClock == 1
MaxClockRows == 3

\* The number of rows ever inserted, over the three tables, through the client.
MaxAppRows == 3

\* ------------------------------------------------------------- null, enums

NULL == 0

\* A text column or field that is null.
NullString == "null"

\* An optional field of a partial-update input is a set: {} when the caller
\* left the field out (undefined), {v} when it supplied v (v may be NULL).
Optional(S) == {{}} \cup {{v} : v \in S}

Supplied(field) == field # {}

ValueOf(field) == CHOOSE v \in field : TRUE

TransactionTypes == {"income", "expense"}

BudgetPeriods == {"weekly", "monthly", "yearly"}

\* ---------------------------------------------------------------- calendar

IsLeapYear(y) == (y % 4 = 0 /\ y % 100 # 0) \/ y % 400 = 0

DaysInMonth(y, m) ==
    IF m = 2 THEN (IF IsLeapYear(y) THEN 29 ELSE 28)
    ELSE IF m \in {4, 6, 9, 11} THEN 30 ELSE 31

\* ECMAScript MakeDay/MakeDate as used by setDate, setMonth and setFullYear:
\* a month past December carries into the year, a day past the end of the
\* month carries into the following month(s).
RECURSIVE MakeDate(_, _, _)
MakeDate(y, m, d) ==
    IF m > 12 THEN MakeDate(y + 1, m - 12, d)
    ELSE IF d > DaysInMonth(y, m) THEN MakeDate(y, m + 1, d - DaysInMonth(y, m))
    ELSE [y |-> y, m |-> m, d |-> d]

\* new Date('YYYY-MM-DD'): the stored date string parsed into a Date.
NewDate(s) == [y |-> s \div 10000, m |-> (s \div 100) % 100, d |-> s % 100]

\* A nullable Date input that is null.
NullDate == [y |-> 0, m |-> 0, d |-> 0]

\* Mutant of ToISODate: the month is written zero-based, as getMonth() gives it.
ToISODateZeroBasedMonth(dt) == dt.y * 10000 + (dt.m - 1) * 100 + dt.d

\* date.toISOString().split('T')[0]: a Date formatted back to 'YYYY-MM-DD'.
ToISODate(dt) == dt.y * 10000 + dt.m * 100 + dt.d

\* ------------------------------------------------- IEEE-754 double arithmetic
\* percentage_used is computed in double precision:
\*     Math.round((spentAmount / budgetAmount) * 100)
\* A positive double is kept exactly, as limbs <<l4, l3, l2, l1, l0>> in base
\* 2^13 and a binary scale sh: its value is
\*     (l4*2^52 + l3*2^39 + l2*2^26 + l1*2^13 + l0) / 2^sh.

Pow2(n) == 2 ^ n

Limb == 8192

\* Carries propagated so that every limb but the first is below the base.
NormLimbs(l) ==
    LET c0 == l[5] \div Limb
        v1 == l[4] + c0
        c1 == v1 \div Limb
        v2 == l[3] + c1
        c2 == v2 \div Limb
        v3 == l[2] + c2
        c3 == v3 \div Limb
    IN  <<l[1] + c3, v3 % Limb, v2 % Limb, v1 % Limb, l[5] % Limb>>

\* The binary exponent of s/b: the e with 2^e <= s/b < 2^(e+1), for s, b > 0.
RECURSIVE Log2Floor(_, _)
Log2Floor(s, b) ==
    IF s >= 2 * b THEN 1 + Log2Floor(s, 2 * b)
    ELSE IF s < b THEN Log2Floor(2 * s, b) - 1
    ELSE 0

\* spentAmount / budgetAmount: the quotient rounded to 53 significant bits,
\* ties to even.
FloatDiv(s, b) ==
    LET e  == Log2Floor(s, b)
        n  == IF e < 0 THEN s * Pow2(-e) ELSE s
        dd == IF e > 0 THEN b * Pow2(e) ELSE b
        r0 == n - dd
        d1 == (r0 * Limb) \div dd
        r1 == (r0 * Limb) % dd
        d2 == (r1 * Limb) \div dd
        r2 == (r1 * Limb) % dd
        d3 == (r2 * Limb) \div dd
        r3 == (r2 * Limb) % dd
        d4 == (r3 * Limb) \div dd
        r4 == (r3 * Limb) % dd
        up == IF 2 * r4 > dd \/ (2 * r4 = dd /\ d4 % 2 = 1) THEN 1 ELSE 0
    IN  [l |-> NormLimbs(<<1, d1, d2, d3, d4 + up>>), sh |-> 52 - e]

\* x * 100: the exact product rounded to 53 significant bits, ties to even.
\* The product of a 53-bit significand and 100 has 59 or 60 bits, so 6 or 7
\* low bits are rounded away.
FloatMul100(x) ==
    LET p    == NormLimbs(<<x.l[1] * 100, x.l[2] * 100, x.l[3] * 100,
                            x.l[4] * 100, x.l[5] * 100>>)
        n    == IF p[1] >= 128 THEN 7 ELSE 6
        unit == Pow2(n)
        low  == p[5] % unit
        keep == p[5] - low
        odd  == (p[5] \div unit) % 2 = 1
        up   == IF 2 * low > unit \/ (2 * low = unit /\ odd) THEN unit ELSE 0
    IN  [l |-> NormLimbs(<<p[1], p[2], p[3], p[4], keep + up>>), sh |-> x.sh]

\* Math.round(x): floor(x + 1/2), computed exactly (ties go up).
MathRound(x) ==
    LET hi == x.l[1] * Limb + x.l[2]
        k  == x.sh - 39
        half == IF k >= 1 THEN (hi \div Pow2(k - 1)) % 2 ELSE x.l[3] \div 4096
    IN  IF k > 30 THEN 0 ELSE (hi \div Pow2(k)) + half

\* budgetAmount > 0 ? Math.round((spentAmount / budgetAmount) * 100) : 0
\* (0 / b is +0, which rounds to 0; the operands here are non-negative and
\* the quotient stays below 2^13).
percentageUsed(spentAmount, budgetAmount) ==
    IF budgetAmount > 0
    THEN (IF spentAmount = 0 THEN 0
          ELSE MathRound(FloatMul100(FloatDiv(spentAmount, budgetAmount))))
    ELSE 0

\* ------------------------------------------------------------------- state

VARIABLES
    categories,         \* categoriesTable:   id -> [name, color, icon, created_at]
    transactions,       \* transactionsTable: id -> [amount, description, type,
                        \*     category_id, date, created_at, updated_at]
    budgets,            \* budgetsTable:      id -> [category_id, amount, period,
                        \*     start_date, end_date, created_at, updated_at]
    nextCategoryId,     \* the serial sequences behind the three primary keys
    nextTransactionId,
    nextBudgetId,
    last,               \* the handler call that has completed and whose result the
                        \* caller has not taken yet: its name, the store statements
                        \* it issued, and what it returned or threw
    inflight,           \* the handler calls that are between two of their store
                        \* statements (awaiting one), with their local variables
    clock,              \* the time in milliseconds that new Date() in a handler
                        \* and now() in the store read
    app                 \* the state of the App component of the client: the
                        \* collections it loaded last

tables == <<categories, transactions, budgets>>

serials == <<nextCategoryId, nextTransactionId, nextBudgetId>>

vars == <<categories, transactions, budgets,
          nextCategoryId, nextTransactionId, nextBudgetId, last, inflight, clock, app>>

\* ------------------------------------------------------------ input values

CategoryNames == {"Food"}

CategoryColors == {"#FF5733"}

CategoryIcons == {NullString}

TransactionAmounts == {23, 40}

Descriptions == {"Groceries"}

\* The day before the budgets' start, the start itself, and a week later.
TransactionDates == {20240130, 20240131, 20240207}

BudgetAmounts == {0, 40}

BudgetStartDates == {20240131}

BudgetEndDates == {NULL, 20240131}

\* Clock readings: before every budget period, on its first day, after all.
CurrentDates == {20240101, 20240131, 20250301}

\* Ids a caller may pass: every id handed out so far and one never handed out.
CategoryIds == 1 .. (MaxCategories + 1)

TransactionIds == 1 .. (MaxTransactions + 1)

BudgetIds == 1 .. (MaxBudgets + 1)

\* The bounds of a filter or of a report's date range, as Dates: a range that
\* starts on the middle transaction date, and one that ends on it or the day
\* before.
RangeStartDates == {NewDate(20240131)}

RangeEndDates == {NewDate(20240130), NewDate(20240131)}

\* ------------------------------------------------------- store statements

\* Mutant of SelectById: the WHERE clause is lost, every row is found.
SelectWithoutWhere(table, id) == DOMAIN table

\* db.select().from(table).where(eq(table.id, id)): the keys of the rows found.
SelectById(table, id) == {i \in DOMAIN table : i = id}

\* db.insert(table).values(row), the serial sequence supplying the key.
InsertRow(table, id, row) ==
    [i \in DOMAIN table \cup {id} |-> IF i = id THEN row ELSE table[i]]

\* Mutant of DeleteById: the WHERE clause is lost, every row is deleted.
DeleteEveryRow(table, id) == <<>>

\* db.delete(table).where(eq(table.id, id))
DeleteById(table, id) == [i \in DOMAIN table \ {id} |-> table[i]]

\* Mutant of NullifyCategory: the category's transactions are deleted with it.
CascadeDeleteTransactions(txs, id) ==
    [t \in {i \in DOMAIN txs : txs[i].category_id # id} |-> txs[t]]

\* Mutant of NullifyCategory: the WHERE clause is lost, every transaction is
\* set to category_id = null.
NullifyEveryCategory(txs, id) ==
    [t \in DOMAIN txs |-> [txs[t] EXCEPT !.category_id = NULL]]

\* db.update(transactionsTable).set({ category_id: null })
\*   .where(eq(transactionsTable.category_id, id))
NullifyCategory(txs, id) ==
    [t \in DOMAIN txs |->
        IF txs[t].category_id # NULL /\ txs[t].category_id = id
        THEN [txs[t] EXCEPT !.category_id = NULL]
        ELSE txs[t]]

\* Mutant of DeleteBudgetsOfCategory: the budgets of the category are kept.
KeepBudgetsOfCategory(buds, id) == buds

\* db.delete(budgetsTable).where(eq(budgetsTable.category_id, id))
DeleteBudgetsOfCategory(buds, id) ==
    [b \in {i \in DOMAIN buds : buds[i].category_id # id} |-> buds[b]]

\* The rows a statement with WHERE category_id = id touches.
RowsOfCategory(table, id) ==
    {i \in DOMAIN table : table[i].category_id # NULL /\ table[i].category_id = id}

EmptyTable == <<>>

\* ------------------------------------------------------- getBudgetStatus

\* budgetsTable innerJoin categoriesTable on budgets.category_id = categories.id:
\* the pairs <<budget id, category id>> of the joined rows.
BudgetCategoryJoin(buds, cats) ==
    {p \in (DOMAIN buds) \X (DOMAIN cats) : buds[p[1]].category_id = p[2]}

\* The effective end of a budget's period, as a Date: the budget's own end
\* date, else the start date moved on by setDate(+7), setMonth(+1) or
\* setFullYear(+1).
effectiveEndDate(budget) ==
    IF budget.end_date # NULL
    THEN NewDate(budget.end_date)
    ELSE LET startDate == NewDate(budget.start_date)
         IN  CASE budget.period = "weekly" ->
                    MakeDate(startDate.y, startDate.m, startDate.d + 7)
               [] budget.period = "monthly" ->
                    MakeDate(startDate.y, startDate.m + 1, startDate.d)
               [] budget.period = "yearly" ->
                    MakeDate(startDate.y + 1, startDate.m, startDate.d)

\* Mutant of SpentRows: the end of the period is excluded (lt for lte).
SpentRowsBeforeEnd(txs, budget) ==
    {t \in DOMAIN txs :
        /\ txs[t].category_id # NULL
        /\ txs[t].category_id = budget.category_id
        /\ txs[t].type = "expense"
        /\ txs[t].date >= budget.start_date
        /\ txs[t].date < ToISODate(effectiveEndDate(budget))}

\* Mutant of SpentRows: the type predicate is lost, income counts as spending.
SpentRowsOfAnyType(txs, budget) ==
    {t \in DOMAIN txs :
        /\ txs[t].category_id # NULL
        /\ txs[t].category_id = budget.category_id
        /\ txs[t].date >= budget.start_date
        /\ txs[t].date <= ToISODate(effectiveEndDate(budget))}

\* The rows of the spending query: expenses of the budget's category dated
\* from start_date to the effective end date.
SpentRows(txs, budget) ==
    {t \in DOMAIN txs :
        /\ txs[t].category_id # NULL
        /\ txs[t].category_id = budget.category_id
        /\ txs[t].type = "expense"
        /\ txs[t].date >= budget.start_date
        /\ txs[t].date <= ToISODate(effectiveEndDate(budget))}

\* SUM(amount) over a set of transaction rows; COALESCE(.., 0) on no row.
RECURSIVE SumAmount(_, _)
SumAmount(txs, rows) ==
    IF rows = {} THEN 0
    ELSE LET t == CHOOSE r \in rows : TRUE
         IN  txs[t].amount + SumAmount(txs, rows \ {t})

\* parseInt(spentResult[0].total_spent) || 0
spentAmount(txs, budget) == SumAmount(txs, SpentRows(txs, budget))

remainingAmount(budgetAmount, spent) == budgetAmount - spent

\* Mutant of isOverBudget: a budget spent exactly is reported as overspent.
isOverBudgetAtLimit(budgetAmount, spent) == spent >= budgetAmount

isOverBudget(budgetAmount, spent) == spent > budgetAmount

\* The BudgetStatus pushed for one joined row <<budget id, category id>>.
BudgetStatusOf(buds, cats, txs, p) ==
    LET budget == buds[p[1]]
        spent  == spentAmount(txs, budget)
    IN  [id               |-> p[1],
         category_id      |-> budget.category_id,
         category_name    |-> cats[p[2]].name,
         budget_amount    |-> budget.amount,
         spent_amount     |-> spent,
         remaining_amount |-> remainingAmount(budget.amount, spent),
         percentage_used  |-> percentageUsed(spent, budget.amount),
         period           |-> budget.period,
         start_date       |-> NewDate(budget.start_date),
         end_date         |-> effectiveEndDate(budget),
         is_over_budget   |-> isOverBudget(budget.amount, spent)]

\* The joined rows in the order the store returns them (by budget id here;
\* the order is not part of the handler's contract).
RECURSIVE JoinOrder(_)
JoinOrder(pairs) ==
    IF pairs = {} THEN <<>>
    ELSE LET p == CHOOSE q \in pairs :
                    \A r \in pairs : q[1] < r[1] \/ (q[1] = r[1] /\ q[2] <= r[2])
         IN  <<p>> \o JoinOrder(pairs \ {p})

\* Mutant of BudgetsListed: only the budgets whose period holds the clock
\* reading are listed.
BudgetsActiveAt(buds, cats, currentDate) ==
    {p \in BudgetCategoryJoin(buds, cats) :
        /\ buds[p[1]].start_date <= currentDate
        /\ currentDate <= ToISODate(effectiveEndDate(buds[p[1]]))}

\* The budgets the loop goes through. currentDate is the clock reading the
\* loop takes (new Date()); no budget is left out because of it.
BudgetsListed(buds, cats, currentDate) == BudgetCategoryJoin(buds, cats)

\* The list getBudgetStatus returns on a store that does not change while
\* it runs.
getBudgetStatus(buds, cats, txs, currentDate) ==
    LET rows == JoinOrder(BudgetsListed(buds, cats, currentDate))
    IN  [i \in 1 .. Len(rows) |-> BudgetStatusOf(buds, cats, txs, rows[i])]

\* Mutant of getCategories: the select is cut to its first row (limit 1).
getCategoriesFirst(cats) ==
    {[id |-> c, name |-> cats[c].name, color |-> cats[c].color, icon |-> cats[c].icon,
      created_at |-> cats[c].created_at] :
        c \in {i \in DOMAIN cats : \A j \in DOMAIN cats : i <= j}}

\* getCategories(): every row of the categories table.
getCategories(cats) ==
    {[id |-> c, name |-> cats[c].name, color |-> cats[c].color, icon |-> cats[c].icon,
      created_at |-> cats[c].created_at] : c \in DOMAIN cats}

\* ------------------------------------------------------- getTransactions

\* One entry of the `conditions` array: eq / gte / lte of a column and a value.
Condition(column, op, value) == [column |-> column, op |-> op, value |-> value]

\* The conditions getTransactions pushes for a filter, in the order of its
\* if statements. A filter is absent or one record of four optional fields;
\* the two dates are Date objects, compared as toISOString().split('T')[0].
filterConditions(filter) ==
    IF ~Supplied(filter) THEN <<>>
    ELSE LET f == ValueOf(filter)
         IN  (IF Supplied(f.type)
              THEN <<Condition("type", "eq", ValueOf(f.type))>> ELSE <<>>)
             \o (IF Supplied(f.category_id)
                 THEN <<Condition("category_id", "eq", ValueOf(f.category_id))>>
                 ELSE <<>>)
             \o (IF Supplied(f.start_date)
                 THEN <<Condition("date", "gte", ToISODate(ValueOf(f.start_date)))>>
                 ELSE <<>>)
             \o (IF Supplied(f.end_date)
                 THEN <<Condition("date", "lte", ToISODate(ValueOf(f.end_date)))>>
                 ELSE <<>>)

\* Mutant of ConditionHolds: lte is evaluated as lt, the end date is excluded.
ConditionHoldsBeforeEnd(row, c) ==
    CASE c.column = "type"        -> row.type = c.value
      [] c.column = "category_id" -> row.category_id # NULL /\ row.category_id = c.value
      [] c.column = "date"        ->
            IF c.op = "gte" THEN row.date >= c.value ELSE row.date < c.value

\* Whether the store finds a condition true of a row. A comparison with a
\* NULL column is not true.
ConditionHolds(row, c) ==
    CASE c.column = "type"        -> row.type = c.value
      [] c.column = "category_id" -> row.category_id # NULL /\ row.category_id = c.value
      [] c.column = "date"        ->
            IF c.op = "gte" THEN row.date >= c.value ELSE row.date <= c.value

\* Mutant of WhereAll: with several conditions, one of them is enough (or for and).
WhereAny(txs, conditions) ==
    IF Len(conditions) = 0 THEN DOMAIN txs
    ELSE {t \in DOMAIN txs :
            \E i \in 1 .. Len(conditions) : ConditionHolds(txs[t], conditions[i])}

\* conditions.length > 0 ? select().from().where(one condition or and(...))
\*                       : select().from(): the keys of the rows selected.
WhereAll(txs, conditions) ==
    IF Len(conditions) = 0 THEN DOMAIN txs
    ELSE {t \in DOMAIN txs :
            \A i \in 1 .. Len(conditions) : ConditionHolds(txs[t], conditions[i])}

\* The rows of a set of keys in the order the store returns them (by id here;
\* the order is not part of the handler's contract).
RECURSIVE RowOrder(_)
RowOrder(ids) ==
    IF ids = {} THEN <<>>
    ELSE LET i == CHOOSE j \in ids : \A k \in ids : j <= k
         IN  <<i>> \o RowOrder(ids \ {i})

\* results.map(transaction => ({ ...transaction, date: new Date(transaction.date) }))
TransactionOf(txs, t) ==
    [id          |-> t,
     amount      |-> txs[t].amount,
     description |-> txs[t].description,
     type        |-> txs[t].type,
     category_id |-> txs[t].category_id,
     date        |-> NewDate(txs[t].date),
     created_at  |-> txs[t].created_at,
     updated_at  |-> txs[t].updated_at]

\* The list getTransactions returns.
getTransactions(txs, filter) ==
    LET rows == RowOrder(WhereAll(txs, filterConditions(filter)))
    IN  [i \in 1 .. Len(rows) |-> TransactionOf(txs, rows[i])]

\* ----------------------------------------------------- getFinancialReport

\* The date conditions getFinancialReport pushes for a date range: a record
\* of two optional Dates.
dateConditions(dateRange) ==
    (IF Supplied(dateRange.start_date)
     THEN <<Condition("date", "gte", ToISODate(ValueOf(dateRange.start_date)))>>
     ELSE <<>>)
    \o (IF Supplied(dateRange.end_date)
        THEN <<Condition("date", "lte", ToISODate(ValueOf(dateRange.end_date)))>>
        ELSE <<>>)

\* Mutant of TypedRows: the date conditions are left out of the WHERE clause.
TypedRowsOfAllTime(txs, type, conditions) ==
    WhereAll(txs, <<Condition("type", "eq", type)>>)

\* where(conditions.length > 0 ? and(eq(type, ..), ...conditions) : eq(type, ..))
TypedRows(txs, type, conditions) ==
    WhereAll(txs, <<Condition("type", "eq", type)>> \o conditions)

\* parseInt(result[0]?.total || '0') of select sum(amount): SUM over no row is
\* NULL, read as 0.
totalOf(txs, rows) == SumAmount(txs, rows)

\* transactions leftJoin categories on transactions.category_id = categories.id:
\* the categories.name column of a transaction's joined row (NULL without a
\* matching category).
JoinedCategoryName(txs, cats, t) ==
    IF txs[t].category_id # NULL /\ txs[t].category_id \in DOMAIN cats
    THEN cats[txs[t].category_id].name
    ELSE NullString

\* Mutant of GroupKeys: grouped by the category name alone.
GroupKeysByName(txs, cats, rows) ==
    {<<NULL, JoinedCategoryName(txs, cats, t)>> : t \in rows}

\* groupBy(transactions.category_id, categories.name): the keys of the groups
\* of a set of rows (NULLs group together).
GroupKeys(txs, cats, rows) ==
    {<<txs[t].category_id, JoinedCategoryName(txs, cats, t)>> : t \in rows}

\* Mutant of GroupRows: an inner join, only the rows with a matching category
\* are in a group.
GroupRowsInnerJoin(txs, cats, rows, key) ==
    {t \in rows :
        /\ <<txs[t].category_id, JoinedCategoryName(txs, cats, t)>> = key
        /\ txs[t].category_id \in DOMAIN cats}

\* The rows of one group.
GroupRows(txs, cats, rows, key) ==
    {t \in rows : <<txs[t].category_id, JoinedCategoryName(txs, cats, t)>> = key}

\* The groups in the order the store returns them (by category id here, the
\* NULL group first; the order is not part of the handler's contract).
RECURSIVE GroupOrder(_)
GroupOrder(keys) ==
    IF keys = {} THEN <<>>
    ELSE LET k == CHOOSE q \in keys : \A r \in keys : q[1] <= r[1]
         IN  <<k>> \o GroupOrder(keys \ {k})

\* categoryResults.map(..): category_name || null, parseInt(total_amount || '0')
expenseByCategory(txs, cats, rows) ==
    LET groups == GroupOrder(GroupKeys(txs, cats, rows))
    IN  [i \in 1 .. Len(groups) |->
            [category_id   |-> groups[i][1],
             category_name |-> groups[i][2],
             total_amount  |-> totalOf(txs, GroupRows(txs, cats, rows, groups[i]))]]

\* Mutant of reportPeriod: an absent bound is replaced by a default date.
reportPeriodDefaulted(dateRange) ==
    [start_date |-> IF Supplied(dateRange.start_date) THEN dateRange.start_date
                    ELSE {NewDate(19700101)},
     end_date   |-> IF Supplied(dateRange.end_date) THEN dateRange.end_date
                    ELSE {NewDate(19700101)}]

\* period: dateRange
reportPeriod(dateRange) == dateRange

\* The FinancialReport getFinancialReport returns on a store that does not
\* change while it runs.
getFinancialReport(txs, cats, dateRange) ==
    LET conditions    == dateConditions(dateRange)
        totalIncome   == totalOf(txs, TypedRows(txs, "income", conditions))
        totalExpenses == totalOf(txs, TypedRows(txs, "expense", conditions))
    IN  [total_income        |-> totalIncome,
         total_expenses      |-> totalExpenses,
         net_income          |-> totalIncome - totalExpenses,
         expense_by_category |->
             expenseByCategory(txs, cats, TypedRows(txs, "expense", conditions)),
         period              |-> reportPeriod(dateRange)]

\* ---------------------------------------------------------------- handlers
\* Each handler runs to completion as one step, and the caller makes its next
\* call once it has the result of the one before. `last` records the call:
\*   op       the handler,
\*   stmts    the store statements it issued, in order,
\*   rows     the number of rows each statement returned or affected,
\*   outcome  "ok" / "true" / "false" for a return, else the error thrown,
\*   value    the id of the row returned, or the list returned (else 0),
\*   now      the clock reading the handler took (else 0),
\*   request  the argument of the call, where it is recorded (else 0).

CallAt(op, stmts, rows, outcome, value, now) ==
    [op |-> op, stmts |-> stmts, rows |-> rows, outcome |-> outcome,
     value |-> value, now |-> now, request |-> NULL]

\* A call recorded with its argument.
CallWith(request, call) == [call EXCEPT !.request = request]

Call(op, stmts, rows, outcome, value) == CallAt(op, stmts, rows, outcome, value, 0)

NoCall == Call("none", <<>>, <<>>, "ok", 0)

Idle == last = NoCall

\* The rows inserted so far, over the three tables.
RowsInserted == (nextCategoryId - 1) + (nextTransactionId - 1) + (nextBudgetId - 1)

CategoryDoesNotExist == "Category with id does not exist"

CategoryNotFound == "Category with id not found"

TransactionNotFound == "Transaction with id not found"

BudgetNotFound == "Budget with id not found"

\* db.insert(categoriesTable).values(values).returning(): a category row put
\* in the store directly, as the callers that set the store up do (the
\* createCategory of this source inserts nothing).
InsertCategory(input) ==
    /\ Idle
    /\ nextCategoryId <= MaxCategories
    /\ RowsInserted < MaxRows
    /\ categories' = InsertRow(categories, nextCategoryId,
                        [name |-> input.name, color |-> input.color, icon |-> input.icon,
                         created_at |-> clock])
    /\ nextCategoryId' = nextCategoryId + 1
    /\ last' = Call("insert categories", <<"insert categories">>, <<1>>, "ok",
                    nextCategoryId)
    /\ UNCHANGED <<transactions, budgets, nextTransactionId, nextBudgetId>>

\* deleteCategory(id)
DeleteCategory(id) ==
    LET existingCategory == SelectById(categories, id)
    IN  /\ Idle
        /\ IF existingCategory = {}
           THEN /\ last' = Call("deleteCategory", <<"select categories">>, <<0>>, "false", 0)
                /\ UNCHANGED <<tables, serials>>
           ELSE /\ transactions' = NullifyCategory(transactions, id)
                /\ budgets' = DeleteBudgetsOfCategory(budgets, id)
                /\ categories' = DeleteById(categories, id)
                /\ last' = Call("deleteCategory",
                                <<"select categories", "update transactions",
                                  "delete budgets", "delete categories">>,
                                <<1, Cardinality(RowsOfCategory(transactions, id)),
                                  Cardinality(RowsOfCategory(budgets, id)), 1>>,
                                "true", 0)
                /\ UNCHANGED serials

\* deleteTransaction(id): (result.rowCount ?? 0) > 0
DeleteTransaction(id) ==
    LET rowCount == Cardinality(SelectById(transactions, id))
    IN  /\ Idle
        /\ transactions' = DeleteById(transactions, id)
        /\ last' = Call("deleteTransaction", <<"delete transactions">>, <<rowCount>>,
                        IF rowCount > 0 THEN "true" ELSE "false", 0)
        /\ UNCHANGED <<categories, budgets, serials>>

\* deleteBudget(id): result.length > 0 of the rows the delete returned
DeleteBudget(id) ==
    LET result == SelectById(budgets, id)
    IN  /\ Idle
        /\ budgets' = DeleteById(budgets, id)
        /\ last' = Call("deleteBudget", <<"delete budgets">>, <<Cardinality(result)>>,
                        IF Cardinality(result) > 0 THEN "true" ELSE "false", 0)
        /\ UNCHANGED <<categories, transactions, serials>>

\* Mutant of CreateTransaction: the row is inserted without the category check.
CreateTransactionUnchecked(input) ==
    /\ Idle
    /\ nextTransactionId <= MaxTransactions
    /\ RowsInserted < MaxRows
    /\ transactions' = InsertRow(transactions, nextTransactionId,
            [amount      |-> input.amount,
             description |-> input.description,
             type        |-> input.type,
             category_id |-> input.category_id,
             date        |-> ToISODate(input.date),
             created_at  |-> clock,
             updated_at  |-> clock])
    /\ nextTransactionId' = nextTransactionId + 1
    /\ last' = Call("createTransaction", <<"insert transactions">>, <<1>>, "ok",
                    nextTransactionId)
    /\ UNCHANGED <<categories, budgets, nextCategoryId, nextBudgetId>>

\* createTransaction(input); input.date is a Date.
CreateTransaction(input) ==
    /\ Idle
    /\ LET lookup == input.category_id # NULL
           found  == SelectById(categories, input.category_id)
       IN  IF lookup /\ found = {}
           THEN /\ last' = Call("createTransaction", <<"select categories">>, <<0>>,
                                CategoryDoesNotExist, 0)
                /\ UNCHANGED <<tables, serials>>
           ELSE /\ nextTransactionId <= MaxTransactions
                /\ RowsInserted < MaxRows
                /\ transactions' = InsertRow(transactions, nextTransactionId,
                        [amount      |-> input.amount,
                         description |-> input.description,
                         type        |-> input.type,
                         category_id |-> input.category_id,
                         date        |-> ToISODate(input.date),
                         created_at  |-> clock,
                         updated_at  |-> clock])
                /\ nextTransactionId' = nextTransactionId + 1
                /\ last' = IF lookup
                           THEN Call("createTransaction",
                                     <<"select categories", "insert transactions">>,
                                     <<1, 1>>, "ok", nextTransactionId)
                           ELSE Call("createTransaction", <<"insert transactions">>,
                                     <<1>>, "ok", nextTransactionId)
                /\ UNCHANGED <<categories, budgets, nextCategoryId, nextBudgetId>>

\* The row createBudget inserts for an input: the values it passes, and the
\* column defaults created_at, updated_at = now().
BudgetValues(input) ==
    [category_id |-> input.category_id,
     amount      |-> input.amount,
     period      |-> input.period,
     start_date  |-> ToISODate(input.start_date),
     end_date    |-> IF input.end_date # NullDate
                     THEN ToISODate(input.end_date) ELSE NULL,
     created_at  |-> clock,
     updated_at  |-> clock]

\* createBudget(input); input.start_date is a Date, input.end_date a Date or null.
CreateBudget(input) ==
    /\ Idle
    /\ LET existingCategory == SelectById(categories, input.category_id)
       IN  IF existingCategory = {}
           THEN /\ last' = Call("createBudget", <<"select categories">>, <<0>>,
                                CategoryDoesNotExist, 0)
                /\ UNCHANGED <<tables, serials>>
           ELSE /\ nextBudgetId <= MaxBudgets
                /\ RowsInserted < MaxRows
                /\ budgets' = InsertRow(budgets, nextBudgetId, BudgetValues(input))
                /\ nextBudgetId' = nextBudgetId + 1
                /\ last' = Call("createBudget",
                                <<"select categories", "insert budgets">>,
                                <<1, 1>>, "ok", nextBudgetId)
                /\ UNCHANGED <<categories, transactions, nextCategoryId, nextTransactionId>>

\* Mutant of NeedsCategoryLookup: the category of an update is never looked up.
NeverNeedsCategoryLookup(field) == FALSE

\* input.category_id !== undefined && input.category_id !== null
NeedsCategoryLookup(field) == Supplied(field) /\ ValueOf(field) # NULL

\* Mutant of Provided: a text field left out of the input is written as null.
ProvidedOrNull(field, old) == IF Supplied(field) THEN ValueOf(field) ELSE NullString

\* if (input.x !== undefined) updateData.x = input.x: the value the update
\* leaves in a column, given the column's value before it.
Provided(field, old) == IF Supplied(field) THEN ValueOf(field) ELSE old

\* Mutant of ProvidedNullable: the field is taken when it is truthy
\* (if (input.x)), so that a null supplied is not written.
ProvidedIfTruthy(field, old) ==
    IF Supplied(field) /\ ValueOf(field) # NULL THEN ValueOf(field) ELSE old

\* The same for a field that may be supplied as null (category_id of a
\* transaction): null is a value like another.
ProvidedNullable(field, old) == IF Supplied(field) THEN ValueOf(field) ELSE old

\* Mutant of DateColumn: a null Date is written as the epoch.
DateColumnEpoch(dt) == IF dt = NullDate THEN 19700101 ELSE ToISODate(dt)

\* A Date or null handed to the store driver for a date column: the driver
\* writes the Date's calendar date, and NULL for null.
DateColumn(dt) == IF dt = NullDate THEN NULL ELSE ToISODate(dt)

\* updateTransaction(input): a partial update; input.date is an optional Date.
UpdateTransaction(input) ==
    LET existingTransaction == SelectById(transactions, input.id)
        lookup == NeedsCategoryLookup(input.category_id)
        category == IF lookup THEN SelectById(categories, ValueOf(input.category_id)) ELSE {}
        old == transactions[input.id]
        updateData ==
            [amount      |-> Provided(input.amount, old.amount),
             description |-> Provided(input.description, old.description),
             type        |-> Provided(input.type, old.type),
             category_id |-> ProvidedNullable(input.category_id, old.category_id),
             date        |-> IF Supplied(input.date)
                             THEN ToISODate(ValueOf(input.date)) ELSE old.date,
             created_at  |-> old.created_at,
             updated_at  |-> clock]
    IN  /\ Idle
        /\ IF existingTransaction = {}
           THEN /\ last' = Call("updateTransaction", <<"select transactions">>, <<0>>,
                                TransactionNotFound, 0)
                /\ UNCHANGED <<tables, serials>>
           ELSE IF lookup /\ category = {}
           THEN /\ last' = Call("updateTransaction",
                                <<"select transactions", "select categories">>, <<1, 0>>,
                                CategoryNotFound, 0)
                /\ UNCHANGED <<tables, serials>>
           ELSE /\ transactions' = [transactions EXCEPT ![input.id] = updateData]
                /\ last' = IF lookup
                           THEN Call("updateTransaction",
                                     <<"select transactions", "select categories",
                                       "update transactions">>, <<1, 1, 1>>, "ok", input.id)
                           ELSE Call("updateTransaction",
                                     <<"select transactions", "update transactions">>,
                                     <<1, 1>>, "ok", input.id)
                /\ UNCHANGED <<categories, budgets, serials>>

\* updateBudget(input): a partial update; the Dates supplied go to the store
\* driver as they are, which writes their calendar date.
UpdateBudget(input) ==
    LET existingBudget == SelectById(budgets, input.id)
        lookup == Supplied(input.category_id)
        category == IF lookup THEN SelectById(categories, ValueOf(input.category_id)) ELSE {}
        old == budgets[input.id]
        updateData ==
            [category_id |-> Provided(input.category_id, old.category_id),
             amount      |-> Provided(input.amount, old.amount),
             period      |-> Provided(input.period, old.period),
             start_date  |-> IF Supplied(input.start_date)
                             THEN ToISODate(ValueOf(input.start_date)) ELSE old.start_date,
             end_date    |-> IF Supplied(input.end_date)
                             THEN DateColumn(ValueOf(input.end_date)) ELSE old.end_date,
             created_at  |-> old.created_at,
             updated_at  |-> clock]
    IN  /\ Idle
        /\ IF existingBudget = {}
           THEN /\ last' = Call("updateBudget", <<"select budgets">>, <<0>>, BudgetNotFound, 0)
                /\ UNCHANGED <<tables, serials>>
           ELSE IF lookup /\ category = {}
           THEN /\ last' = Call("updateBudget", <<"select budgets", "select categories">>,
                                <<1, 0>>, CategoryNotFound, 0)
                /\ UNCHANGED <<tables, serials>>
           ELSE /\ budgets' = [budgets EXCEPT ![input.id] = updateData]
                /\ last' = IF lookup
                           THEN Call("updateBudget",
                                     <<"select budgets", "select categories", "update budgets">>,
                                     <<1, 1, 1>>, "ok", input.id)
                           ELSE Call("updateBudget", <<"select budgets", "update budgets">>,
                                     <<1, 1>>, "ok", input.id)
                /\ UNCHANGED <<categories, transactions, serials>>

\* getBudgetStatus(): a read; one join query and one spending query per row.
GetBudgetStatus(currentDate) ==
    LET result == getBudgetStatus(budgets, categories, transactions, currentDate)
    IN  /\ Idle
        /\ last' = CallAt("getBudgetStatus",
                          <<"select budgets join categories">>
                              \o [i \in 1 .. Len(result) |-> "select sum transactions"],
                          <<Len(result)>> \o [i \in 1 .. Len(result) |-> 1],
                          "ok", result, currentDate)
        /\ UNCHANGED <<tables, serials>>

\* getTransactions(filter): a read; one select.
GetTransactions(filter) ==
    LET result == getTransactions(transactions, filter)
    IN  /\ Idle
        /\ last' = CallWith(filter,
                        Call("getTransactions", <<"select transactions">>,
                             <<Len(result)>>, "ok", result))
        /\ UNCHANGED <<tables, serials>>

\* getFinancialReport(dateRange): a read; two sums and one grouped query.
GetFinancialReport(dateRange) ==
    LET result == getFinancialReport(transactions, categories, dateRange)
    IN  /\ Idle
        /\ last' = CallWith(dateRange,
                        Call("getFinancialReport",
                             <<"select sum transactions", "select sum transactions",
                               "select sum transactions join categories group">>,
                             <<1, 1, Len(result.expense_by_category)>>, "ok", result))
        /\ UNCHANGED <<tables, serials>>

\* createCategory(input): the category is persisted under a generated id and
\* returned with it and its created_at. (This source declares the handler
\* without its body; the behaviour is the one its specification and its
\* tests state.)
CreateCategory(input) ==
    /\ Idle
    /\ nextCategoryId <= MaxCategories
    /\ RowsInserted < MaxRows
    /\ categories' = InsertRow(categories, nextCategoryId,
                        [name |-> input.name, color |-> input.color, icon |-> input.icon,
                         created_at |-> clock])
    /\ nextCategoryId' = nextCategoryId + 1
    /\ last' = CallWith(input,
                    Call("createCategory", <<"insert categories">>, <<1>>, "ok",
                         [id         |-> nextCategoryId,
                          name       |-> input.name,
                          color      |-> input.color,
                          icon       |-> input.icon,
                          created_at |-> clock]))
    /\ UNCHANGED <<transactions, budgets, nextTransactionId, nextBudgetId>>

\* updateCategory(input): a partial update of name, color and icon that
\* fails when the category does not exist and returns the whole updated
\* record. (Declared without its body in this source, as createCategory.)
UpdateCategory(input) ==
    LET existingCategory == SelectById(categories, input.id)
        old == categories[input.id]
        updated ==
            [name       |-> Provided(input.name, old.name),
             color      |-> Provided(input.color, old.color),
             icon       |-> Provided(input.icon, old.icon),
             created_at |-> old.created_at]
    IN  /\ Idle
        /\ IF existingCategory = {}
           THEN /\ last' = CallWith(input,
                               Call("updateCategory", <<"select categories">>, <<0>>,
                                    CategoryNotFound, 0))
                /\ UNCHANGED <<tables, serials>>
           ELSE /\ categories' = [categories EXCEPT ![input.id] = updated]
                /\ last' = CallWith(input,
                               Call("updateCategory",
                                    <<"select categories", "update categories">>,
                                    <<1, 1>>, "ok",
                                    [id         |-> input.id,
                                     name       |-> updated.name,
                                     color      |-> updated.color,
                                     icon       |-> updated.icon,
                                     created_at |-> updated.created_at]))
                /\ UNCHANGED <<transactions, budgets, serials>>

\* getCategories(): a read; one select.
GetCategories ==
    LET results == getCategories(categories)
    IN  /\ Idle
        /\ last' = Call("getCategories", <<"select categories">>,
                        <<Cardinality(results)>>, "ok", results)
        /\ UNCHANGED <<tables, serials>>

\* ------------------------------------------------------------ the RPC router
\* A procedure parses its input with the validation schema before the handler
\* is called; an input the schema refuses never reaches the handler, and the
\* caller gets a BAD_REQUEST error.

BadRequest == "BAD_REQUEST"

\* Mutant of positive: zero is let through (z.number().nonnegative()).
nonnegative(x) == x >= 0

\* z.number().positive()
positive(x) == x > 0

\* z.string().min(1)
min1(s) == s # ""

\* createTransactionInputSchema
createTransactionInputSchema(input) ==
    /\ positive(input.amount)
    /\ min1(input.description)
    /\ input.type \in TransactionTypes

\* updateTransactionInputSchema: every field but the id is optional.
updateTransactionInputSchema(input) ==
    /\ Supplied(input.amount) => positive(ValueOf(input.amount))
    /\ Supplied(input.description) => min1(ValueOf(input.description))
    /\ Supplied(input.type) => ValueOf(input.type) \in TransactionTypes

\* createBudgetInputSchema
createBudgetInputSchema(input) ==
    /\ positive(input.amount)
    /\ input.period \in BudgetPeriods

\* updateBudgetInputSchema: every field but the id is optional.
updateBudgetInputSchema(input) ==
    /\ Supplied(input.amount) => positive(ValueOf(input.amount))
    /\ Supplied(input.period) => ValueOf(input.period) \in BudgetPeriods

\* The input did not parse: no handler runs and no statement is issued.
Rejected(op, input) ==
    /\ Idle
    /\ last' = CallWith(input, Call(op, <<>>, <<>>, BadRequest, 0))
    /\ UNCHANGED <<tables, serials>>

\* publicProcedure.input(schema).mutation(({ input }) => handler(input))
RouteCreateTransaction(input) ==
    IF createTransactionInputSchema(input)
    THEN CreateTransaction(input) ELSE Rejected("createTransaction", input)

RouteUpdateTransaction(input) ==
    IF updateTransactionInputSchema(input)
    THEN UpdateTransaction(input) ELSE Rejected("updateTransaction", input)

RouteCreateBudget(input) ==
    IF createBudgetInputSchema(input)
    THEN CreateBudget(input) ELSE Rejected("createBudget", input)

RouteUpdateBudget(input) ==
    IF updateBudgetInputSchema(input)
    THEN UpdateBudget(input) ELSE Rejected("updateBudget", input)

\* ------------------------------------------- handlers, statement by statement
\* A handler awaits each store statement, and the statements of two calls
\* that are in progress together interleave. createBudget and deleteCategory
\* are taken statement by statement here: `inflight` holds, for each, the
\* statement the call in progress issues next (pc) and its local variables.

NotRunning == [pc |-> "none"]

\* createBudget, first statement: the category lookup, and the throw when it
\* finds nothing.
CreateBudgetSelect(input) ==
    /\ Idle
    /\ inflight.createBudget.pc = "none"
    /\ IF SelectById(categories, input.category_id) = {}
       THEN /\ last' = Call("createBudget", <<"select categories">>, <<0>>,
                            CategoryDoesNotExist, 0)
            /\ UNCHANGED inflight
       ELSE /\ inflight' = [inflight EXCEPT
                                !.createBudget = [pc |-> "insert budgets", input |-> input]]
            /\ UNCHANGED last
    /\ UNCHANGED <<tables, serials, clock, app>>

\* createBudget, second statement: the insert, and the return.
CreateBudgetInsert ==
    /\ Idle
    /\ inflight.createBudget.pc = "insert budgets"
    /\ nextBudgetId <= MaxConcurrentBudgets
    /\ RowsInserted < MaxRows
    /\ budgets' = InsertRow(budgets, nextBudgetId, BudgetValues(inflight.createBudget.input))
    /\ nextBudgetId' = nextBudgetId + 1
    /\ last' = Call("createBudget", <<"select categories", "insert budgets">>,
                    <<1, 1>>, "ok", nextBudgetId)
    /\ inflight' = [inflight EXCEPT !.createBudget = NotRunning]
    /\ UNCHANGED <<categories, transactions, nextCategoryId, nextTransactionId, clock, app>>

\* deleteCategory, first statement: the lookup, and the return of false when
\* it finds nothing.
DeleteCategorySelect(id) ==
    /\ Idle
    /\ inflight.deleteCategory.pc = "none"
    /\ IF SelectById(categories, id) = {}
       THEN /\ last' = Call("deleteCategory", <<"select categories">>, <<0>>, "false", 0)
            /\ UNCHANGED inflight
       ELSE /\ inflight' = [inflight EXCEPT
                                !.deleteCategory =
                                    [pc |-> "update transactions", id |-> id, rows |-> <<1>>]]
            /\ UNCHANGED last
    /\ UNCHANGED <<tables, serials, clock, app>>

\* deleteCategory, second statement: the category's transactions are set to
\* category_id = null.
DeleteCategoryNullify ==
    LET call == inflight.deleteCategory
    IN  /\ Idle
        /\ call.pc = "update transactions"
        /\ transactions' = NullifyCategory(transactions, call.id)
        /\ inflight' = [inflight EXCEPT
                            !.deleteCategory =
                                [call EXCEPT
                                    !.pc = "delete budgets",
                                    !.rows = Append(call.rows,
                                        Cardinality(RowsOfCategory(transactions, call.id)))]]
        /\ UNCHANGED <<categories, budgets, serials, last, clock, app>>

\* deleteCategory, third statement: the category's budgets are deleted.
DeleteCategoryBudgets ==
    LET call == inflight.deleteCategory
    IN  /\ Idle
        /\ call.pc = "delete budgets"
        /\ budgets' = DeleteBudgetsOfCategory(budgets, call.id)
        /\ inflight' = [inflight EXCEPT
                            !.deleteCategory =
                                [call EXCEPT
                                    !.pc = "delete categories",
                                    !.rows = Append(call.rows,
                                        Cardinality(RowsOfCategory(budgets, call.id)))]]
        /\ UNCHANGED <<categories, transactions, serials, last, clock, app>>

\* deleteCategory, fourth statement: the category row is deleted, and true
\* is returned.
DeleteCategoryRow ==
    LET call == inflight.deleteCategory
    IN  /\ Idle
        /\ call.pc = "delete categories"
        /\ categories' = DeleteById(categories, call.id)
        /\ last' = Call("deleteCategory",
                        <<"select categories", "update transactions",
                          "delete budgets", "delete categories">>,
                        Append(call.rows, Cardinality(SelectById(categories, call.id))),
                        "true", 0)
        /\ inflight' = [inflight EXCEPT !.deleteCategory = NotRunning]
        /\ UNCHANGED <<transactions, budgets, serials, clock, app>>

\* A store statement can fail (the connection drops, the store refuses it):
\* its promise rejects, the statement has had no effect, and deleteCategory's
\* catch block logs the error and throws it again. The statements are not
\* issued inside db.transaction, so nothing is rolled back.
StoreError == "store error"

\* deleteCategory, first statement, the store as it is when the call starts
\* being noted alongside the call.
DeleteCategoryBegin(id) ==
    /\ Idle
    /\ inflight.deleteCategory.pc = "none"
    /\ IF SelectById(categories, id) = {}
       THEN /\ last' = Call("deleteCategory", <<"select categories">>, <<0>>, "false", 0)
            /\ UNCHANGED inflight
       ELSE /\ inflight' = [inflight EXCEPT
                                !.deleteCategory =
                                    [pc |-> "update transactions", id |-> id, rows |-> <<1>>,
                                     before |-> tables]]
            /\ UNCHANGED last
    /\ UNCHANGED <<tables, serials, clock, app>>

\* The statements deleteCategory has completed when the next one is pc.
StatementsBefore(pc) ==
    CASE pc = "update transactions" -> <<"select categories">>
      [] pc = "delete budgets"      -> <<"select categories", "update transactions">>
      [] pc = "delete categories"   -> <<"select categories", "update transactions",
                                         "delete budgets">>

\* deleteCategory, the statement it is about to issue fails: the error is
\* thrown to the caller and the store stays as the statements before it left
\* it. `value` is the store as the call found it.
DeleteCategoryFail ==
    LET call == inflight.deleteCategory
    IN  /\ Idle
        /\ call.pc \in {"update transactions", "delete budgets", "delete categories"}
        /\ last' = CallWith(call.id,
                       Call("deleteCategory", StatementsBefore(call.pc), call.rows,
                            StoreError, call.before))
        /\ inflight' = [inflight EXCEPT !.deleteCategory = NotRunning]
        /\ UNCHANGED <<tables, serials, clock, app>>

\* getBudgetStatus, first statement: the join query. Its rows are the local
\* variable `budgets` of the handler (here the two tables the join read, and
\* the joined pairs in the order of the loop); with no row the loop is not
\* entered and the empty list is returned. `seen` records the states of the
\* store from this statement on, for the comparison with the list returned.
GetBudgetStatusSelect(currentDate) ==
    LET rows == JoinOrder(BudgetsListed(budgets, categories, currentDate))
    IN  /\ Idle
        /\ inflight.getBudgetStatus.pc = "none"
        /\ IF rows = <<>>
           THEN /\ last' = CallAt("getBudgetStatus", <<"select budgets join categories">>,
                                  <<0>>, "ok", <<>>, currentDate)
                /\ UNCHANGED inflight
           ELSE /\ inflight' = [inflight EXCEPT
                                    !.getBudgetStatus =
                                        [pc             |-> "select sum transactions",
                                         budgets        |-> budgets,
                                         categories     |-> categories,
                                         rows           |-> rows,
                                         budgetStatuses |-> <<>>,
                                         now            |-> currentDate,
                                         seen           |-> {tables}]]
                /\ UNCHANGED last
        /\ UNCHANGED <<tables, serials, clock, app>>

\* getBudgetStatus, one turn of the loop: the spending query of the next
\* joined row, on the transactions as they are now, and the push of its
\* BudgetStatus; after the last row the list is returned.
GetBudgetStatusSpend ==
    LET call     == inflight.getBudgetStatus
        i        == Len(call.budgetStatuses) + 1
        statuses == Append(call.budgetStatuses,
                           BudgetStatusOf(call.budgets, call.categories, transactions,
                                          call.rows[i]))
    IN  /\ Idle
        /\ call.pc = "select sum transactions"
        /\ IF i < Len(call.rows)
           THEN /\ inflight' = [inflight EXCEPT !.getBudgetStatus.budgetStatuses = statuses]
                /\ UNCHANGED last
           ELSE /\ last' = CallAt("getBudgetStatus",
                                  <<"select budgets join categories">>
                                      \o [k \in 1 .. Len(call.rows) |-> "select sum transactions"],
                                  <<Len(call.rows)>> \o [k \in 1 .. Len(call.rows) |-> 1],
                                  "ok", statuses, call.now)
                /\ inflight' = [inflight EXCEPT !.getBudgetStatus = NotRunning]
        /\ UNCHANGED <<tables, serials, clock, app>>

\* A call A that runs while a getBudgetStatus may be between two of its
\* statements: the state of the store it leaves is recorded in `seen`.
Observed(A) ==
    /\ A
    /\ inflight' = IF inflight.getBudgetStatus.pc = "none"
                   THEN inflight
                   ELSE [inflight EXCEPT !.getBudgetStatus.seen = @ \cup {tables'}]
    /\ UNCHANGED <<clock, app>>

\* ------------------------------------------------------------ input domains

CategoryValues ==
    [name : CategoryNames, color : CategoryColors, icon : CategoryIcons]

CreateTransactionInputs ==
    [amount      : TransactionAmounts,
     description : Descriptions,
     type        : TransactionTypes,
     category_id : CategoryIds \cup {NULL},
     date        : {NewDate(d) : d \in TransactionDates}]

CreateBudgetInputs ==
    [category_id : CategoryIds,
     amount      : BudgetAmounts,
     period      : BudgetPeriods,
     start_date  : {NewDate(d) : d \in BudgetStartDates},
     end_date    : {IF d = NULL THEN NullDate ELSE NewDate(d) : d \in BudgetEndDates}]

\* The number of optional fields a partial-update input supplies. (The input
\* sets below are written {i : i \in ..} so that they are enumerated once.)
SuppliedCount(input, fields) == Cardinality({f \in fields : Supplied(input[f])})

UpdateTransactionInputs ==
    {i : i \in {input \in
        [id          : TransactionIds,
         amount      : Optional(TransactionAmounts),
         description : Optional(Descriptions),
         type        : Optional(TransactionTypes),
         category_id : Optional(CategoryIds \cup {NULL}),
         date        : Optional({NewDate(d) : d \in TransactionDates})] :
        SuppliedCount(input, {"amount", "description", "type", "category_id", "date"})
            <= MaxUpdateFields}}

UpdateBudgetInputs ==
    {i : i \in {input \in
        [id          : BudgetIds,
         category_id : Optional(CategoryIds),
         amount      : Optional(BudgetAmounts),
         period      : Optional(BudgetPeriods),
         start_date  : Optional({NewDate(d) : d \in BudgetStartDates}),
         end_date    : Optional({IF d = NULL THEN NullDate ELSE NewDate(d) :
                                     d \in BudgetEndDates})] :
        SuppliedCount(input, {"category_id", "amount", "period", "start_date", "end_date"})
            <= MaxUpdateFields}}

\* The inputs of createCategory: the icon is null or an icon.
CreateCategoryInputs ==
    [name : CategoryNames, color : CategoryColors, icon : {NullString, "bus"}]

\* The inputs of updateCategory: any subset of name, color and icon; the icon
\* may be supplied as null.
UpdateCategoryInputs ==
    [id    : CategoryIds,
     name  : Optional({"Dining"}),
     color : Optional({"#3498DB"}),
     icon  : Optional({NullString, "bus"})]

\* A filter of getTransactions: absent, or any subset of its four fields.
TransactionFilters ==
    Optional([type        : Optional(TransactionTypes),
              category_id : Optional(CategoryIds),
              start_date  : Optional(RangeStartDates),
              end_date    : Optional(RangeEndDates)])

\* A date range of getFinancialReport: either bound may be absent.
DateRanges ==
    [start_date : Optional(RangeStartDates), end_date : Optional(RangeEndDates)]

\* What a client may send to the router as an amount: a negative number,
\* zero, and two amounts in cents.
RequestAmounts == {-5, 0, 23, 40}

\* The requests made of the four procedures that take an amount: expenses
\* and monthly budgets, of any of these amounts; updates that supply the
\* amount, the category, both or neither.
RouteCreateTransactionInputs ==
    [amount      : RequestAmounts,
     description : Descriptions,
     type        : {"expense"},
     category_id : {NULL, 1},
     date        : {NewDate(20240131)}]

RouteUpdateTransactionInputs ==
    [id          : TransactionIds,
     amount      : Optional(RequestAmounts),
     description : {{}},
     type        : {{}},
     category_id : Optional({NULL, 1}),
     date        : {{}}]

RouteCreateBudgetInputs ==
    [category_id : {1},
     amount      : RequestAmounts,
     period      : {"monthly"},
     start_date  : {NewDate(d) : d \in BudgetStartDates},
     end_date    : {NullDate}]

RouteUpdateBudgetInputs ==
    [id          : BudgetIds,
     category_id : Optional({1}),
     amount      : Optional(RequestAmounts),
     period      : {{}},
     start_date  : {{}},
     end_date    : {{}}]

\* ------------------------------------------------------------------ client
\* The App component keeps what its five load functions fetched last:
\* loadCategories, loadTransactions (no filter), loadBudgets, loadBudgetStatus
\* and loadFinancialReport (from the first of the current month to today).

\* The day the client runs on.
Today == 20240131

\* { start_date: new Date(year, month, 1), end_date: new Date() }
ThisMonth ==
    [start_date |-> {NewDate((Today \div 100) * 100 + 1)}, end_date |-> {NewDate(Today)}]

\* getBudgets(): every row of the budgets table, its dates as Dates.
getBudgets(buds) ==
    {[id          |-> b,
      category_id |-> buds[b].category_id,
      amount      |-> buds[b].amount,
      period      |-> buds[b].period,
      start_date  |-> NewDate(buds[b].start_date),
      end_date    |-> IF buds[b].end_date # NULL THEN NewDate(buds[b].end_date) ELSE NullDate,
      created_at  |-> buds[b].created_at,
      updated_at  |-> buds[b].updated_at] : b \in DOMAIN buds}

\* What the five queries return on a store: the state loadAllData leaves.
Loaded(cats, txs, buds) ==
    [categories      |-> getCategories(cats),
     transactions    |-> getTransactions(txs, {}),
     budgets         |-> getBudgets(buds),
     budgetStatus    |-> getBudgetStatus(buds, cats, txs, Today),
     financialReport |-> getFinancialReport(txs, cats, ThisMonth)]

\* The load functions, run on the store the mutation left. A handler awaits
\* the mutation and then the callbacks App passed to it; when the mutation
\* throws, the catch block logs and nothing is loaded.
loadCategories(state) ==
    [state EXCEPT !.categories = getCategories(categories')]

loadTransactions(state) ==
    [state EXCEPT !.transactions = getTransactions(transactions', {})]

loadBudgets(state) ==
    [state EXCEPT !.budgets = getBudgets(budgets')]

loadBudgetStatus(state) ==
    [state EXCEPT !.budgetStatus =
        getBudgetStatus(budgets', categories', transactions', Today)]

Failed == last'.outcome \notin {"ok", "true", "false"}

\* CategoryManager: handleCreateCategory, handleEditCategory,
\* handleDeleteCategory; each then awaits loadCategories.
handleCreateCategory(input) ==
    /\ CreateCategory(input)
    /\ app' = IF Failed THEN app ELSE loadCategories(app)

handleEditCategory(input) ==
    /\ UpdateCategory(input)
    /\ app' = IF Failed THEN app ELSE loadCategories(app)

handleDeleteCategory(id) ==
    /\ DeleteCategory(id)
    /\ app' = IF Failed THEN app ELSE loadCategories(app)

\* TransactionManager: handleCreateTransaction, handleEditTransaction,
\* handleDeleteTransaction; each then awaits loadTransactions.
handleCreateTransaction(input) ==
    /\ RouteCreateTransaction(input)
    /\ app' = IF Failed THEN app ELSE loadTransactions(app)

handleEditTransaction(input) ==
    /\ RouteUpdateTransaction(input)
    /\ app' = IF Failed THEN app ELSE loadTransactions(app)

handleDeleteTransaction(id) ==
    /\ DeleteTransaction(id)
    /\ app' = IF Failed THEN app ELSE loadTransactions(app)

\* BudgetManager: handleCreateBudget, handleEditBudget, handleDeleteBudget;
\* each then awaits loadBudgets and loadBudgetStatus.
handleCreateBudget(input) ==
    /\ RouteCreateBudget(input)
    /\ app' = IF Failed THEN app ELSE loadBudgetStatus(loadBudgets(app))

handleEditBudget(input) ==
    /\ RouteUpdateBudget(input)
    /\ app' = IF Failed THEN app ELSE loadBudgetStatus(loadBudgets(app))

handleDeleteBudget(id) ==
    /\ DeleteBudget(id)
    /\ app' = IF Failed THEN app ELSE loadBudgetStatus(loadBudgets(app))

\* ------------------------------------------------------------ specification

Init ==
    /\ categories = EmptyTable
    /\ transactions = EmptyTable
    /\ budgets = EmptyTable
    /\ nextCategoryId = 1
    /\ nextTransactionId = 1
    /\ nextBudgetId = 1
    /\ last = NoCall
    /\ inflight = [createBudget    |-> NotRunning,
                   deleteCategory  |-> NotRunning,
                   getBudgetStatus |-> NotRunning]
    /\ clock = 0
    /\ app = Loaded(EmptyTable, EmptyTable, EmptyTable)

\* A category row inserted directly.
InsertCategoryStep ==
    \E input \in CategoryValues : InsertCategory(input) /\ UNCHANGED <<inflight, clock, app>>

\* A call of a handler that runs to completion as one step.
DeleteCategoryCall ==
    \E id \in CategoryIds : DeleteCategory(id) /\ UNCHANGED <<inflight, clock, app>>

CreateTransactionCall ==
    \E input \in CreateTransactionInputs : CreateTransaction(input) /\ UNCHANGED <<inflight, clock, app>>

UpdateTransactionCall ==
    \E input \in UpdateTransactionInputs : UpdateTransaction(input) /\ UNCHANGED <<inflight, clock, app>>

DeleteTransactionCall ==
    \E id \in TransactionIds : DeleteTransaction(id) /\ UNCHANGED <<inflight, clock, app>>

CreateBudgetCall ==
    \E input \in CreateBudgetInputs : CreateBudget(input) /\ UNCHANGED <<inflight, clock, app>>

UpdateBudgetCall ==
    \E input \in UpdateBudgetInputs : UpdateBudget(input) /\ UNCHANGED <<inflight, clock, app>>

DeleteBudgetCall ==
    \E id \in BudgetIds : DeleteBudget(id) /\ UNCHANGED <<inflight, clock, app>>

GetBudgetStatusCall ==
    \E currentDate \in CurrentDates : GetBudgetStatus(currentDate) /\ UNCHANGED <<inflight, clock, app>>

CreateCategoryCall ==
    \E input \in CreateCategoryInputs : CreateCategory(input) /\ UNCHANGED <<inflight, clock, app>>

UpdateCategoryCall ==
    \E input \in UpdateCategoryInputs : UpdateCategory(input) /\ UNCHANGED <<inflight, clock, app>>

GetCategoriesCall == GetCategories /\ UNCHANGED <<inflight, clock, app>>

GetTransactionsCall ==
    \E filter \in TransactionFilters : GetTransactions(filter) /\ UNCHANGED <<inflight, clock, app>>

GetFinancialReportCall ==
    \E dateRange \in DateRanges : GetFinancialReport(dateRange) /\ UNCHANGED <<inflight, clock, app>>

\* Time passes: the clock moves on by a millisecond.
Tick ==
    /\ Idle
    /\ clock < MaxClock
    /\ clock' = clock + 1
    /\ UNCHANGED <<tables, serials, last, inflight, app>>

\* The caller takes the result of the call it made.
Return ==
    /\ ~Idle
    /\ last' = NoCall
    /\ UNCHANGED <<tables, serials, inflight, clock, app>>

Next ==
    \/ InsertCategoryStep
    \/ DeleteCategoryCall
    \/ CreateTransactionCall
    \/ UpdateTransactionCall
    \/ DeleteTransactionCall
    \/ CreateBudgetCall
    \/ UpdateBudgetCall
    \/ DeleteBudgetCall
    \/ GetBudgetStatusCall
    \/ Return

Spec == Init /\ [][Next]_vars

\* The inputs of the calls made while createBudget and deleteCategory are in
\* progress together: monthly budgets of 40, expenses of 23 on the start date.
ConcurrentBudgetInputs ==
    {input \in CreateBudgetInputs : input.amount = 40 /\ input.period = "monthly"}

ConcurrentTransactionInputs ==
    {input \in CreateTransactionInputs :
        /\ input.amount = 23
        /\ input.type = "expense"
        /\ input.category_id # NULL
        /\ input.date = NewDate(20240131)}

CreateTransactionConcurrentCall ==
    \E input \in ConcurrentTransactionInputs :
        CreateTransaction(input) /\ UNCHANGED <<inflight, clock, app>>

\* The steps of createBudget and deleteCategory calls in progress together.
CreateBudgetSelectStep == \E input \in ConcurrentBudgetInputs : CreateBudgetSelect(input)

DeleteCategorySelectStep == \E id \in CategoryIds : DeleteCategorySelect(id)

\* createBudget and deleteCategory statement by statement, the other
\* handlers each as one step.
NextConc ==
    \/ InsertCategoryStep
    \/ CreateTransactionConcurrentCall
    \/ CreateBudgetSelectStep
    \/ CreateBudgetInsert
    \/ DeleteCategorySelectStep
    \/ DeleteCategoryNullify
    \/ DeleteCategoryBudgets
    \/ DeleteCategoryRow
    \/ GetBudgetStatusCall
    \/ Return

SpecConc == Init /\ [][NextConc]_vars

\* The inputs of the rows created while the clock runs: expenses of 23 on
\* 2024-01-31 and monthly budgets of 40; the updates then reach every value.
ClockInsertCategory == RowsInserted < MaxClockRows /\ InsertCategoryStep

ClockCreateTransaction == RowsInserted < MaxClockRows /\ CreateTransactionConcurrentCall

ClockCreateBudget == RowsInserted < MaxClockRows /\ CreateBudgetInsert

\* The update handlers with time passing: rows are created and updated at
\* clock readings that may or may not differ. createBudget runs as its two
\* statements.
NextClock ==
    \/ ClockInsertCategory
    \/ ClockCreateTransaction
    \/ CreateBudgetSelectStep
    \/ ClockCreateBudget
    \/ UpdateTransactionCall
    \/ UpdateBudgetCall
    \/ Tick
    \/ Return

SpecClock == Init /\ [][NextClock]_vars

\* The same with transactions only, and with budgets only.
NextUpdateTransaction ==
    \/ ClockInsertCategory
    \/ ClockCreateTransaction
    \/ UpdateTransactionCall
    \/ Tick
    \/ Return

SpecUpdateTransaction == Init /\ [][NextUpdateTransaction]_vars

NextUpdateBudget ==
    \/ ClockInsertCategory
    \/ CreateBudgetSelectStep
    \/ ClockCreateBudget
    \/ UpdateBudgetCall
    \/ Tick
    \/ Return

SpecUpdateBudget == Init /\ [][NextUpdateBudget]_vars

\* The category handlers, with time passing.
NextCategory ==
    \/ CreateCategoryCall
    \/ UpdateCategoryCall
    \/ GetCategoriesCall
    \/ DeleteCategoryCall
    \/ Tick
    \/ Return

SpecCategory == Init /\ [][NextCategory]_vars

\* The two read handlers over the stores that categories and transactions
\* being created and categories being deleted lead to.
NextQuery ==
    \/ InsertCategoryStep
    \/ DeleteCategoryCall
    \/ CreateTransactionCall
    \/ GetTransactionsCall
    \/ GetFinancialReportCall
    \/ Return

SpecQuery == Init /\ [][NextQuery]_vars

\* The four procedures that take an amount, called through the router.
RouteCreateTransactionCall ==
    \E input \in RouteCreateTransactionInputs :
        RouteCreateTransaction(input) /\ UNCHANGED <<inflight, clock, app>>

RouteUpdateTransactionCall ==
    \E input \in RouteUpdateTransactionInputs :
        RouteUpdateTransaction(input) /\ UNCHANGED <<inflight, clock, app>>

RouteCreateBudgetCall ==
    \E input \in RouteCreateBudgetInputs :
        RouteCreateBudget(input) /\ UNCHANGED <<inflight, clock, app>>

RouteUpdateBudgetCall ==
    \E input \in RouteUpdateBudgetInputs :
        RouteUpdateBudget(input) /\ UNCHANGED <<inflight, clock, app>>

NextRouter ==
    \/ InsertCategoryStep
    \/ RouteCreateTransactionCall
    \/ RouteUpdateTransactionCall
    \/ RouteCreateBudgetCall
    \/ RouteUpdateBudgetCall
    \/ Return

SpecRouter == Init /\ [][NextRouter]_vars

\* deleteCategory statement by statement, any of its statements failing, the
\* other handlers running while no deleteCategory is in progress.
DeleteCategoryBeginStep == \E id \in CategoryIds : DeleteCategoryBegin(id)

BetweenDeletes(A) == inflight.deleteCategory = NotRunning /\ A

NextFail ==
    \/ BetweenDeletes(InsertCategoryStep)
    \/ BetweenDeletes(CreateTransactionCall)
    \/ BetweenDeletes(CreateBudgetCall)
    \/ DeleteCategoryBeginStep
    \/ DeleteCategoryNullify
    \/ DeleteCategoryBudgets
    \/ DeleteCategoryRow
    \/ DeleteCategoryFail
    \/ Return

SpecFail == Init /\ [][NextFail]_vars

\* The client: the mutation handlers of the three manager components, each
\* completing with the loads it awaits before the next one starts.
HandleCreateCategoryStep ==
    \E input \in CreateCategoryInputs :
        handleCreateCategory(input) /\ UNCHANGED <<inflight, clock>>

HandleEditCategoryStep ==
    \E input \in UpdateCategoryInputs :
        handleEditCategory(input) /\ UNCHANGED <<inflight, clock>>

HandleDeleteCategoryStep ==
    \E id \in CategoryIds : handleDeleteCategory(id) /\ UNCHANGED <<inflight, clock>>

HandleCreateTransactionStep ==
    \E input \in RouteCreateTransactionInputs :
        handleCreateTransaction(input) /\ UNCHANGED <<inflight, clock>>

HandleEditTransactionStep ==
    \E input \in RouteUpdateTransactionInputs :
        handleEditTransaction(input) /\ UNCHANGED <<inflight, clock>>

HandleDeleteTransactionStep ==
    \E id \in TransactionIds : handleDeleteTransaction(id) /\ UNCHANGED <<inflight, clock>>

HandleCreateBudgetStep ==
    \E input \in RouteCreateBudgetInputs :
        handleCreateBudget(input) /\ UNCHANGED <<inflight, clock>>

HandleEditBudgetStep ==
    \E input \in RouteUpdateBudgetInputs :
        handleEditBudget(input) /\ UNCHANGED <<inflight, clock>>

HandleDeleteBudgetStep ==
    \E id \in BudgetIds : handleDeleteBudget(id) /\ UNCHANGED <<inflight, clock>>

NextApp ==
    \/ (RowsInserted < MaxAppRows /\ HandleCreateCategoryStep)
    \/ HandleEditCategoryStep
    \/ HandleDeleteCategoryStep
    \/ (RowsInserted < MaxAppRows /\ HandleCreateTransactionStep)
    \/ HandleEditTransactionStep
    \/ HandleDeleteTransactionStep
    \/ (RowsInserted < MaxAppRows /\ HandleCreateBudgetStep)
    \/ HandleEditBudgetStep
    \/ HandleDeleteBudgetStep
    \/ Return

SpecApp == Init /\ [][NextApp]_vars

\* No call is between two of its statements.
Quiet ==
    /\ inflight.createBudget = NotRunning
    /\ inflight.deleteCategory = NotRunning
    /\ inflight.getBudgetStatus = NotRunning

\* getFinancialReport on the stores that transactions created while a
\* deleteCategory is in progress lead to; the report itself is computed
\* while no mutation is in progress.
NextReport ==
    \/ InsertCategoryStep
    \/ CreateTransactionCall
    \/ DeleteCategorySelectStep
    \/ DeleteCategoryNullify
    \/ DeleteCategoryBudgets
    \/ DeleteCategoryRow
    \/ (Quiet /\ GetFinancialReportCall)
    \/ Return

SpecReport == Init /\ [][NextReport]_vars

GetBudgetStatusSelectStep ==
    \E currentDate \in CurrentDates : GetBudgetStatusSelect(currentDate)

\* getBudgetStatus statement by statement, alongside calls that change the
\* store between its statements.
NextStatus ==
    \/ \E input \in CategoryValues : Observed(InsertCategory(input))
    \/ \E input \in ConcurrentBudgetInputs : Observed(CreateBudget(input))
    \/ \E input \in ConcurrentTransactionInputs : Observed(CreateTransaction(input))
    \/ \E id \in TransactionIds : Observed(DeleteTransaction(id))
    \/ \E id \in BudgetIds : Observed(DeleteBudget(id))
    \/ \E id \in CategoryIds : Observed(DeleteCategory(id))
    \/ GetBudgetStatusSelectStep
    \/ GetBudgetStatusSpend
    \/ Return

SpecStatus == Init /\ [][NextStatus]_vars

\* ================================================================== claims

\* Helpers of the claims: the set of a list's entries, and sums written
\* over the primary keys.
Entries(list) == {list[i] : i \in DOMAIN list}

RECURSIVE SumUpTo(_, _, _)
SumUpTo(txs, counted, n) ==
    IF n = 0 THEN 0
    ELSE (IF n \in counted THEN txs[n].amount ELSE 0) + SumUpTo(txs, counted, n - 1)

\* C1: after deleteCategory(id) succeeds on an existing category, every
\* transaction that referenced it still exists with category_id = null, no
\* budget of the category remains, getCategories() does not list it, and the
\* call returned true.
C1_DeleteCategoryCascade ==
    [][\A id \in CategoryIds :
          (last'.op = "deleteCategory" /\ id \in DOMAIN categories /\ DeleteCategory(id))
          =>
          /\ last'.outcome = "true"
          /\ \A t \in DOMAIN transactions :
                transactions[t].category_id = id
                => t \in DOMAIN transactions' /\ transactions'[t].category_id = NULL
          /\ \A b \in DOMAIN budgets' : budgets'[b].category_id # id
          /\ \A c \in getCategories(categories') : c.id # id]_vars

\* C1 witness: a deleteCategory that returned true after nulling two
\* transactions and deleting a budget, the transactions still stored.
C1_Witness ==
    /\ last.op = "deleteCategory"
    /\ last.outcome = "true"
    /\ last.rows[2] = 2
    /\ last.rows[3] = 1
    /\ Cardinality({t \in DOMAIN transactions : transactions[t].category_id = NULL}) = 2

\* C2: deleteCategory, deleteTransaction and deleteBudget on an id that is
\* not in their table return false (no error) and leave the three tables
\* unchanged.
C2_DeleteMissingReturnsFalse ==
    [][/\ \A id \in CategoryIds :
            (last'.op = "deleteCategory" /\ id \notin DOMAIN categories /\ DeleteCategory(id))
            => last'.outcome = "false" /\ UNCHANGED tables
       /\ \A id \in TransactionIds :
            (last'.op = "deleteTransaction" /\ id \notin DOMAIN transactions
                /\ DeleteTransaction(id))
            => last'.outcome = "false" /\ UNCHANGED tables
       /\ \A id \in BudgetIds :
            (last'.op = "deleteBudget" /\ id \notin DOMAIN budgets /\ DeleteBudget(id))
            => last'.outcome = "false" /\ UNCHANGED tables]_vars

\* C2 witness: a delete that returned false on a store holding rows in all
\* three tables.
C2_Witness ==
    /\ last.op \in {"deleteCategory", "deleteTransaction", "deleteBudget"}
    /\ last.outcome = "false"
    /\ last.rows = <<0>>
    /\ categories # EmptyTable
    /\ transactions # EmptyTable
    /\ budgets # EmptyTable

\* The transactions a budget status entry s must count: expenses of its
\* category dated within [s.start_date, s.end_date], both bounds included.
InWindow(s) ==
    {t \in DOMAIN transactions :
        /\ transactions[t].type = "expense"
        /\ transactions[t].category_id = s.category_id
        /\ ToISODate(s.start_date) <= transactions[t].date
        /\ transactions[t].date <= ToISODate(s.end_date)}

\* C3: in every list getBudgetStatus returns, spent_amount is the sum of the
\* amounts of exactly the expenses of the budget's category dated from
\* start_date to the effective end date, both included.
C3_SpentAmountWindow ==
    last.op = "getBudgetStatus"
    => \A s \in Entries(last.value) :
          s.spent_amount = SumUpTo(transactions, InWindow(s), nextTransactionId - 1)

\* C3 witness: a status entry that counts an expense dated on the effective
\* end date while another expense of the category, dated outside the window,
\* is not counted.
C3_Witness ==
    /\ last.op = "getBudgetStatus"
    /\ \E s \in Entries(last.value) :
         /\ \E t \in InWindow(s) :
               /\ transactions[t].date = ToISODate(s.end_date)
               /\ s.spent_amount = transactions[t].amount
         /\ \E t \in DOMAIN transactions :
               /\ transactions[t].type = "expense"
               /\ transactions[t].category_id = s.category_id
               /\ t \notin InWindow(s)

\* The list getBudgetStatus would return on the current store, and on the
\* store after the step.
StatusNow == getBudgetStatus(budgets, categories, transactions, 20240131)

StatusNext == getBudgetStatus(budgets', categories', transactions', 20240131)

\* A step that creates an income transaction, deletes one, or updates one.
IncomeTransactionStep ==
    \/ /\ last'.op = "createTransaction"
       /\ last'.outcome = "ok"
       /\ transactions'[last'.value].type = "income"
    \/ /\ last'.op = "deleteTransaction"
       /\ last'.outcome = "true"
       /\ \A t \in DOMAIN transactions \ DOMAIN transactions' :
             transactions[t].type = "income"
    \/ /\ last'.op = "updateTransaction"
       /\ last'.outcome = "ok"
       /\ transactions[last'.value].type = "income"

\* C4 as stated: creating, updating or deleting a transaction of type income
\* leaves the result of getBudgetStatus unchanged.
C4_IncomeStepKeepsStatus ==
    [][IncomeTransactionStep => StatusNext = StatusNow]_vars

\* C4 as amended: the same, for an update that leaves the type at income.
C4_IncomeKeptKeepsStatus ==
    [][(IncomeTransactionStep
            /\ (last'.op = "updateTransaction"
                    => transactions'[last'.value].type = "income"))
        => StatusNext = StatusNow]_vars

\* C4 witness: an income transaction stored with the category of a budget and
\* a date inside its period, the budget reporting nothing spent.
C4_Witness ==
    /\ last.op \in {"createTransaction", "updateTransaction"}
    /\ last.outcome = "ok"
    /\ transactions[last.value].type = "income"
    /\ \E s \in Entries(StatusNow) :
         /\ s.category_id = transactions[last.value].category_id
         /\ ToISODate(s.start_date) <= transactions[last.value].date
         /\ transactions[last.value].date <= ToISODate(s.end_date)
         /\ s.spent_amount = 0

\* C5: in every status entry remaining_amount = budget_amount - spent_amount
\* and is_over_budget holds exactly when spent_amount > budget_amount; a
\* budget spent exactly has 0 remaining and is not over budget.
C5_RemainingAndOverBudget ==
    last.op = "getBudgetStatus"
    => \A s \in Entries(last.value) :
          /\ s.remaining_amount = s.budget_amount - s.spent_amount
          /\ s.is_over_budget <=> (s.spent_amount > s.budget_amount)
          /\ s.spent_amount = s.budget_amount
                => s.remaining_amount = 0 /\ ~s.is_over_budget

\* C5 witness: a budget of 40 spent exactly by one expense of 40.
C5_Witness ==
    /\ last.op = "getBudgetStatus"
    /\ \E s \in Entries(last.value) :
         s.budget_amount > 0 /\ s.spent_amount = s.budget_amount

\* C6 as stated: percentage_used is the integer nearest to
\* spent_amount * 100 / budget_amount, a tie going up, when budget_amount > 0,
\* and 0 when budget_amount is 0; it is not capped at 100.
C6_PercentageNearestTiesUp ==
    last.op = "getBudgetStatus"
    => \A s \in Entries(last.value) :
          s.percentage_used =
              IF s.budget_amount > 0
              THEN (200 * s.spent_amount + s.budget_amount) \div (2 * s.budget_amount)
              ELSE 0

\* Calendar arithmetic on 'YYYY-MM-DD' dates, for the claims: the day after,
\* n days after, the same day of the next month and of the next year (the
\* day clamped to the last day of the target month).
NextDay(date) ==
    LET y == date \div 10000
        m == (date \div 100) % 100
        d == date % 100
    IN  IF d < DaysInMonth(y, m) THEN date + 1
        ELSE IF m < 12 THEN y * 10000 + (m + 1) * 100 + 1
        ELSE (y + 1) * 10000 + 101

RECURSIVE PlusDays(_, _)
PlusDays(date, n) == IF n = 0 THEN date ELSE PlusDays(NextDay(date), n - 1)

ClampDay(y, m, d) ==
    y * 10000 + m * 100 + (IF d <= DaysInMonth(y, m) THEN d ELSE DaysInMonth(y, m))

PlusCalendarMonth(date) ==
    LET y == date \div 10000
        m == (date \div 100) % 100
        d == date % 100
    IN  IF m < 12 THEN ClampDay(y, m + 1, d) ELSE ClampDay(y + 1, 1, d)

PlusCalendarYear(date) ==
    ClampDay(date \div 10000 + 1, (date \div 100) % 100, date % 100)

\* C8 as stated: the end_date of every status entry is the budget's own
\* end_date when that is set, and otherwise start_date + 7 days (weekly),
\* + 1 calendar month (monthly) or + 1 calendar year (yearly); it is never
\* null.
C8_EffectiveEndDate ==
    last.op = "getBudgetStatus"
    => \A s \in Entries(last.value) :
          LET budget == budgets[s.id]
          IN  /\ s.end_date # NullDate
              /\ ToISODate(s.end_date) =
                    IF budget.end_date # NULL THEN budget.end_date
                    ELSE CASE budget.period = "weekly"  -> PlusDays(budget.start_date, 7)
                           [] budget.period = "monthly" -> PlusCalendarMonth(budget.start_date)
                           [] budget.period = "yearly"  -> PlusCalendarYear(budget.start_date)

\* C9: createTransaction with a non-null category_id that no category has
\* fails with the 'does not exist' error and leaves the transactions table
\* unchanged; with category_id = null it inserts the row without any
\* category lookup.
C9_CreateTransactionCategoryCheck ==
    [][\A input \in CreateTransactionInputs :
          (last'.op = "createTransaction" /\ CreateTransaction(input))
          =>
          /\ (input.category_id # NULL /\ input.category_id \notin DOMAIN categories)
                => /\ last'.outcome = CategoryDoesNotExist
                   /\ transactions' = transactions
          /\ input.category_id = NULL
                => /\ last'.outcome = "ok"
                   /\ "select categories" \notin Entries(last'.stmts)
                   /\ DOMAIN transactions' = DOMAIN transactions \cup {last'.value}
                   /\ transactions'[last'.value].category_id = NULL]_vars

\* C9 witness: a createTransaction refused for its category while other
\* categories exist, an uncategorized transaction being stored.
C9_Witness ==
    /\ last.op = "createTransaction"
    /\ last.outcome = CategoryDoesNotExist
    /\ categories # EmptyTable
    /\ \E t \in DOMAIN transactions : transactions[t].category_id = NULL

\* C10: createBudget looks the category up before it inserts; when the
\* category does not exist it fails and the budgets table is unchanged; when
\* it exists exactly one budget row is added, holding the supplied fields
\* (end_date null when none is supplied).
C10_CreateBudgetCategoryCheck ==
    [][\A input \in CreateBudgetInputs :
          (last'.op = "createBudget" /\ CreateBudget(input))
          =>
          /\ last'.stmts[1] = "select categories"
          /\ IF input.category_id \notin DOMAIN categories
             THEN /\ last'.outcome = CategoryDoesNotExist
                  /\ budgets' = budgets
             ELSE /\ last'.outcome = "ok"
                  /\ last'.value \notin DOMAIN budgets
                  /\ DOMAIN budgets' = DOMAIN budgets \cup {last'.value}
                  /\ \A b \in DOMAIN budgets : budgets'[b] = budgets[b]
                  /\ LET row == budgets'[last'.value]
                     IN  /\ row.category_id = input.category_id
                         /\ row.amount = input.amount
                         /\ row.period = input.period
                         /\ row.start_date = input.start_date.y * 10000
                                + input.start_date.m * 100 + input.start_date.d
                         /\ row.end_date =
                               IF input.end_date = NullDate THEN NULL
                               ELSE input.end_date.y * 10000
                                        + input.end_date.m * 100 + input.end_date.d]_vars

\* C10 witness: a createBudget refused for its category while a category and
\* a budget are stored.
C10_Witness ==
    /\ last.op = "createBudget"
    /\ last.outcome = CategoryDoesNotExist
    /\ categories # EmptyTable
    /\ budgets # EmptyTable

\* C7: the list getBudgetStatus returns holds exactly one entry for each
\* stored budget whose category exists and none for a budget whose category
\* does not; it is the same list whatever the current date (past, current
\* and future budgets are listed alike); and the call returns, it does not
\* fail, when a budget is orphaned.
C7_OneEntryPerLiveBudget ==
    last.op = "getBudgetStatus"
    => /\ last.outcome = "ok"
       /\ \A s \in Entries(last.value) : s.id \in DOMAIN budgets
       /\ \A b \in DOMAIN budgets :
             Cardinality({i \in DOMAIN last.value : last.value[i].id = b})
                 = IF budgets[b].category_id \in DOMAIN categories THEN 1 ELSE 0
       /\ \A now \in CurrentDates :
             getBudgetStatus(budgets, categories, transactions, now) = last.value

\* C7 witness: a list returned after the period of the budget it holds has
\* ended, while another budget, whose category was deleted, is stored and
\* not listed.
C7_Witness ==
    /\ last.op = "getBudgetStatus"
    /\ \E b \in DOMAIN budgets : budgets[b].category_id \notin DOMAIN categories
    /\ \E s \in Entries(last.value) : ToISODate(s.end_date) < last.now

\* C11: getTransactions(filter) returns exactly the stored transactions that
\* satisfy every predicate the filter supplies (type equal, category_id equal,
\* date >= start_date, date <= end_date, both bounds inclusive), each as it is
\* stored, and every stored transaction when the filter is absent or empty.
DateNotAfter(a, b) ==
    \/ a.y < b.y
    \/ a.y = b.y /\ a.m < b.m
    \/ a.y = b.y /\ a.m = b.m /\ a.d <= b.d

FilterMatches(filter) ==
    IF filter = {} THEN DOMAIN transactions
    ELSE LET f == ValueOf(filter)
         IN  {t \in DOMAIN transactions :
                /\ \A type \in f.type : transactions[t].type = type
                /\ \A id \in f.category_id : transactions[t].category_id = id
                /\ \A s \in f.start_date : DateNotAfter(s, NewDate(transactions[t].date))
                /\ \A e \in f.end_date : DateNotAfter(NewDate(transactions[t].date), e)}

C11_GetTransactionsFilter ==
    last.op = "getTransactions" =>
        /\ Len(last.value) = Cardinality(FilterMatches(last.request))
        /\ {e.id : e \in Entries(last.value)} = FilterMatches(last.request)
        /\ \A e \in Entries(last.value) :
              /\ e.amount = transactions[e.id].amount
              /\ e.description = transactions[e.id].description
              /\ e.type = transactions[e.id].type
              /\ e.category_id = transactions[e.id].category_id
              /\ ToISODate(e.date) = transactions[e.id].date

\* A filter of all four fields has selected, of two stored transactions, the
\* one dated on the filter's end date.
C11_Witness ==
    /\ last.op = "getTransactions"
    /\ Cardinality(DOMAIN transactions) = 2
    /\ Len(last.value) = 1
    /\ last.request # {}
    /\ \A fld \in {"type", "category_id", "start_date", "end_date"} :
          ValueOf(last.request)[fld] # {}
    /\ transactions[last.value[1].id].date =
          ToISODate(ValueOf(ValueOf(last.request).end_date))

\* The stored transactions of a type dated within a date range, an absent
\* bound leaving that side open.
ReportRows(type, dateRange) ==
    {t \in DOMAIN transactions :
        /\ transactions[t].type = type
        /\ \A s \in dateRange.start_date : DateNotAfter(s, NewDate(transactions[t].date))
        /\ \A e \in dateRange.end_date : DateNotAfter(NewDate(transactions[t].date), e)}

\* C12: getFinancialReport returns total_income = the sum of the amounts of
\* the income transactions in range, total_expenses = the same for expenses,
\* net_income = total_income - total_expenses; with no transaction in range
\* all three are 0 and expense_by_category is empty, and no error is raised.
C12_ReportTotals ==
    last.op = "getFinancialReport" =>
        LET income   == SumUpTo(transactions, ReportRows("income", last.request),
                                nextTransactionId - 1)
            expenses == SumUpTo(transactions, ReportRows("expense", last.request),
                                nextTransactionId - 1)
        IN  /\ last.outcome = "ok"
            /\ last.value.total_income = income
            /\ last.value.total_expenses = expenses
            /\ last.value.net_income = income - expenses
            /\ (ReportRows("income", last.request) = {}
                    /\ ReportRows("expense", last.request) = {})
                 => /\ last.value.total_income = 0
                    /\ last.value.total_expenses = 0
                    /\ last.value.net_income = 0
                    /\ last.value.expense_by_category = <<>>

\* A report over a range open at its start: an income in range, an expense of
\* a larger amount on the last day of the range, and a negative net income.
C12_Witness ==
    /\ last.op = "getFinancialReport"
    /\ last.request.start_date = {}
    /\ last.request.end_date # {}
    /\ last.value.total_income = 23
    /\ last.value.total_expenses = 40
    /\ last.value.net_income = -17
    /\ \E t \in DOMAIN transactions :
          /\ transactions[t].type = "expense"
          /\ transactions[t].date = ToISODate(ValueOf(last.request.end_date))

\* C13: expense_by_category has exactly one entry per distinct category_id
\* among the expense transactions in range (the uncategorized ones form one
\* entry with category_id null and category_name null), each entry's
\* total_amount is the sum of its group's amounts, and there is no entry for
\* a category without an expense in range or for income transactions.
C13_ExpenseByCategory ==
    last.op = "getFinancialReport" =>
        LET expenses == ReportRows("expense", last.request)
            ids      == {transactions[t].category_id : t \in expenses}
            list     == last.value.expense_by_category
        IN  /\ Len(list) = Cardinality(ids)
            /\ {e.category_id : e \in Entries(list)} = ids
            /\ \A e \in Entries(list) :
                  /\ e.total_amount =
                        SumUpTo(transactions,
                                {t \in expenses : transactions[t].category_id = e.category_id},
                                nextTransactionId - 1)
                  /\ e.category_id = NULL => e.category_name = NullString

\* Two categories are stored; an uncategorized expense and an expense of one
\* category are in range. The report has two entries: the uncategorized one,
\* without a name, and the category's, with its name.
C13_Witness ==
    /\ last.op = "getFinancialReport"
    /\ Len(last.value.expense_by_category) = 2
    /\ \E e \in Entries(last.value.expense_by_category) :
          e.category_id = NULL /\ e.category_name = NullString
    /\ \E e \in Entries(last.value.expense_by_category) :
          e.category_id # NULL /\ e.category_name # NullString
    /\ Cardinality(DOMAIN categories) = 2

\* C20: the period of a getFinancialReport result is the input date range
\* unchanged: a supplied bound is echoed with its value and an absent bound
\* stays absent, for the four combinations of supplied and absent bounds.
C20_PeriodEchoesRange ==
    last.op = "getFinancialReport" =>
        /\ last.value.period.start_date = last.request.start_date
        /\ last.value.period.end_date = last.request.end_date
        /\ DOMAIN last.value.period = {"start_date", "end_date"}

\* A report over a range with no start and an end, on a store with a
\* transaction: the period has no start and the same end.
C20_Witness ==
    /\ last.op = "getFinancialReport"
    /\ transactions # EmptyTable
    /\ last.request.start_date = {}
    /\ last.request.end_date = {NewDate(20240131)}
    /\ last.value.period.start_date = {}
    /\ last.value.period.end_date = {NewDate(20240131)}

\* C14: updateTransaction fails with a not-found error when the transaction
\* id does not exist, and with a category-not-found error when a non-null
\* category_id is supplied that references no existing category; in both
\* cases every stored transaction, the target's updated_at included, is
\* unchanged. category_id = null is accepted without a category lookup.
C14_UpdateTransactionErrors ==
    [][last'.op = "updateTransaction" =>
          \A input \in UpdateTransactionInputs :
              UpdateTransaction(input) =>
                  /\ input.id \notin DOMAIN transactions =>
                        /\ last'.outcome = TransactionNotFound
                        /\ transactions' = transactions
                  /\ (/\ input.id \in DOMAIN transactions
                      /\ \E c \in input.category_id : c # NULL /\ c \notin DOMAIN categories) =>
                        /\ last'.outcome = CategoryNotFound
                        /\ transactions' = transactions
                  /\ (input.id \in DOMAIN transactions /\ input.category_id = {NULL}) =>
                        /\ last'.outcome = "ok"
                        /\ "select categories" \notin Entries(last'.stmts)
                        /\ transactions'[input.id].category_id = NULL]_vars

\* An update has failed on its category, after the clock moved on from the
\* time the two stored transactions were written.
C14_Witness ==
    /\ last.op = "updateTransaction"
    /\ last.outcome = CategoryNotFound
    /\ Cardinality(DOMAIN transactions) = 2
    /\ \A t \in DOMAIN transactions : transactions[t].updated_at < clock

\* C15: after a successful updateTransaction every field supplied holds the
\* supplied value, every omitted field keeps its prior value, id and
\* created_at are unchanged and no other transaction is modified; an explicit
\* category_id = null makes the transaction uncategorized, an omitted
\* category_id leaves it as it was.
C15_UpdateTransactionFrame ==
    [][(last'.op = "updateTransaction" /\ last'.outcome = "ok") =>
          \A input \in UpdateTransactionInputs :
              UpdateTransaction(input) =>
                  LET old == transactions[input.id]
                      new == transactions'[input.id]
                  IN  /\ last'.value = input.id
                      /\ DOMAIN transactions' = DOMAIN transactions
                      /\ \A t \in DOMAIN transactions \ {input.id} :
                            transactions'[t] = transactions[t]
                      /\ new.created_at = old.created_at
                      /\ \A v \in input.amount : new.amount = v
                      /\ input.amount = {} => new.amount = old.amount
                      /\ \A v \in input.description : new.description = v
                      /\ input.description = {} => new.description = old.description
                      /\ \A v \in input.type : new.type = v
                      /\ input.type = {} => new.type = old.type
                      /\ \A v \in input.category_id : new.category_id = v
                      /\ input.category_id = {} => new.category_id = old.category_id
                      /\ \A v \in input.date : NewDate(new.date) = v
                      /\ input.date = {} => new.date = old.date]_vars

\* Of two transactions created with a category, one has been made
\* uncategorized by an update that looked no category up; the other is as
\* it was created.
C15_Witness ==
    /\ last.op = "updateTransaction"
    /\ last.outcome = "ok"
    /\ "select categories" \notin Entries(last.stmts)
    /\ Cardinality(DOMAIN transactions) = 2
    /\ transactions[last.value].category_id = NULL
    /\ transactions[last.value].updated_at > transactions[last.value].created_at
    /\ \A t \in DOMAIN transactions \ {last.value} :
          /\ transactions[t].category_id # NULL
          /\ transactions[t].updated_at = transactions[t].created_at

\* C16: updateBudget fails with a not-found error when the budget id does not
\* exist and with a category-not-found error when a supplied category_id
\* references no existing category, all budgets being left unchanged; on
\* success the supplied fields take the new values (end_date = null makes the
\* budget ongoing), the omitted fields keep their values, id and created_at
\* are unchanged.
C16_UpdateBudget ==
    [][last'.op = "updateBudget" =>
          \A input \in UpdateBudgetInputs :
              UpdateBudget(input) =>
                  LET old == budgets[input.id]
                      new == budgets'[input.id]
                  IN  IF input.id \notin DOMAIN budgets
                      THEN last'.outcome = BudgetNotFound /\ budgets' = budgets
                      ELSE IF \E c \in input.category_id : c \notin DOMAIN categories
                      THEN last'.outcome = CategoryNotFound /\ budgets' = budgets
                      ELSE /\ last'.outcome = "ok"
                           /\ last'.value = input.id
                           /\ DOMAIN budgets' = DOMAIN budgets
                           /\ new.created_at = old.created_at
                           /\ \A v \in input.category_id : new.category_id = v
                           /\ input.category_id = {} => new.category_id = old.category_id
                           /\ \A v \in input.amount : new.amount = v
                           /\ input.amount = {} => new.amount = old.amount
                           /\ \A v \in input.period : new.period = v
                           /\ input.period = {} => new.period = old.period
                           /\ \A v \in input.start_date : NewDate(new.start_date) = v
                           /\ input.start_date = {} => new.start_date = old.start_date
                           /\ \A v \in input.end_date :
                                 IF v = NullDate THEN new.end_date = NULL
                                 ELSE new.end_date # NULL /\ NewDate(new.end_date) = v
                           /\ input.end_date = {} => new.end_date = old.end_date]_vars

\* Of two budgets created with an end date, one has been made ongoing by an
\* update; the other is as it was created.
C16_Witness ==
    /\ last.op = "updateBudget"
    /\ last.outcome = "ok"
    /\ Cardinality(DOMAIN budgets) = 2
    /\ budgets[last.value].end_date = NULL
    /\ budgets[last.value].updated_at > budgets[last.value].created_at
    /\ \A b \in DOMAIN budgets \ {last.value} :
          /\ budgets[b].end_date # NULL
          /\ budgets[b].updated_at = budgets[b].created_at

\* C17: every successful updateTransaction and updateBudget, one that
\* supplies no field but the id included, sets the row's updated_at to a time
\* strictly later than its previous updated_at and later than its created_at,
\* and leaves the updated_at of every other row unchanged.
C17_UpdatedAtStrictlyLater ==
    [][/\ (last'.op = "updateTransaction" /\ last'.outcome = "ok") =>
            /\ \A t \in DOMAIN transactions :
                  IF t = last'.value
                  THEN /\ transactions'[t].updated_at > transactions[t].updated_at
                       /\ transactions'[t].updated_at > transactions[t].created_at
                  ELSE transactions'[t].updated_at = transactions[t].updated_at
            /\ budgets' = budgets
       /\ (last'.op = "updateBudget" /\ last'.outcome = "ok") =>
            /\ \A b \in DOMAIN budgets :
                  IF b = last'.value
                  THEN /\ budgets'[b].updated_at > budgets[b].updated_at
                       /\ budgets'[b].updated_at > budgets[b].created_at
                  ELSE budgets'[b].updated_at = budgets[b].updated_at
            /\ transactions' = transactions]_vars

C21_StoredAmountsPositive ==
    [][/\ \A t \in DOMAIN transactions' : transactions'[t].amount > 0
       /\ \A b \in DOMAIN budgets' : budgets'[b].amount > 0
       /\ \A input \in RouteCreateTransactionInputs :
             (last'.op = "createTransaction" /\ input.amount <= 0
                 /\ RouteCreateTransaction(input))
             => last'.outcome = BadRequest /\ last'.stmts = <<>> /\ UNCHANGED tables
       /\ \A input \in RouteUpdateTransactionInputs :
             (last'.op = "updateTransaction" /\ (\E a \in input.amount : a <= 0)
                 /\ RouteUpdateTransaction(input))
             => last'.outcome = BadRequest /\ last'.stmts = <<>> /\ UNCHANGED tables
       /\ \A input \in RouteCreateBudgetInputs :
             (last'.op = "createBudget" /\ input.amount <= 0
                 /\ RouteCreateBudget(input))
             => last'.outcome = BadRequest /\ last'.stmts = <<>> /\ UNCHANGED tables
       /\ \A input \in RouteUpdateBudgetInputs :
             (last'.op = "updateBudget" /\ (\E a \in input.amount : a <= 0)
                 /\ RouteUpdateBudget(input))
             => last'.outcome = BadRequest /\ last'.stmts = <<>> /\ UNCHANGED tables]_vars

\* An update of a stored budget with amount 0 has been rejected, while two
\* transactions with different positive amounts are stored.
C21_Witness ==
    /\ last.op = "updateBudget"
    /\ last.outcome = BadRequest
    /\ last.request.amount = {0}
    /\ last.request.id \in DOMAIN budgets
    /\ Cardinality({transactions[t].amount : t \in DOMAIN transactions}) = 2

\* C22: when deleteCategory fails after any one of its store statements, the
\* store is exactly as it was before the call: the category's transactions
\* are not left with category_id = null, nor its budgets deleted, while the
\* category row is still there.
C22_FailedDeleteLeavesStore ==
    (last.op = "deleteCategory" /\ last.outcome = StoreError)
    => /\ tables = last.value
       /\ last.request \in DOMAIN categories

\* C23: after a mutation handler of the client (create, update or delete of
\* a category, transaction or budget) has completed together with the loads
\* it awaits, every collection in the App component's state (categories,
\* transactions, budgets, budgetStatus, financialReport) equals what the
\* server would return for it at that moment.
C23_AppStateFresh ==
    (last.op \in {"createCategory", "updateCategory", "deleteCategory",
                  "createTransaction", "updateTransaction", "deleteTransaction",
                  "createBudget", "updateBudget", "deleteBudget"}
        /\ last.outcome \in {"ok", "true", "false"})
    => app = Loaded(categories, transactions, budgets)

\* C24: deleteCategory(id) changes nothing outside the deleted category:
\* every other category row is unchanged, every transaction that did not
\* reference id keeps its category_id (and is unchanged), every budget of
\* another category remains unchanged, the number of transactions is
\* unchanged (none is deleted), and the transactions that referenced id
\* change only in category_id.
C24_DeleteCategoryFrame ==
    [][\A id \in CategoryIds :
          (last'.op = "deleteCategory" /\ id \in DOMAIN categories /\ DeleteCategory(id))
          =>
          /\ \A c \in DOMAIN categories \ {id} :
                c \in DOMAIN categories' /\ categories'[c] = categories[c]
          /\ DOMAIN categories' \subseteq DOMAIN categories
          /\ DOMAIN transactions' = DOMAIN transactions
          /\ Cardinality(DOMAIN transactions') = Cardinality(DOMAIN transactions)
          /\ \A t \in DOMAIN transactions :
                IF transactions[t].category_id = id
                THEN transactions'[t] = [transactions[t] EXCEPT !.category_id = NULL]
                ELSE transactions'[t] = transactions[t]
          /\ \A b \in DOMAIN budgets :
                budgets[b].category_id # id
                => b \in DOMAIN budgets' /\ budgets'[b] = budgets[b]
          /\ DOMAIN budgets' \subseteq DOMAIN budgets
          /\ UNCHANGED serials]_vars

\* A deleteCategory that returned true with a second category stored: the
\* transaction of the deleted category is kept with category_id = null, the
\* transaction of the other category still references it.
C24_Witness ==
    /\ last.op = "deleteCategory"
    /\ last.outcome = "true"
    /\ last.rows[2] = 1
    /\ \E c \in DOMAIN categories :
          \E t \in DOMAIN transactions : transactions[t].category_id = c
    /\ \E t \in DOMAIN transactions : transactions[t].category_id = NULL

\* C25: deleteTransaction(id) and deleteBudget(id) each return true exactly
\* when a row with that id existed, remove exactly that one row and have no
\* cascading effect: the other rows of the table and the rows of the other
\* two tables are unchanged; the id is then absent, so that a second delete
\* of the same id returns false.
C25_DeleteOneRow ==
    [][/\ \A id \in TransactionIds :
            (last'.op = "deleteTransaction" /\ DeleteTransaction(id))
            =>
            /\ (last'.outcome = "true") <=> (id \in DOMAIN transactions)
            /\ (last'.outcome = "false") <=> (id \notin DOMAIN transactions)
            /\ DOMAIN transactions' = DOMAIN transactions \ {id}
            /\ \A t \in DOMAIN transactions' : transactions'[t] = transactions[t]
            /\ categories' = categories
            /\ budgets' = budgets
       /\ \A id \in BudgetIds :
            (last'.op = "deleteBudget" /\ DeleteBudget(id))
            =>
            /\ (last'.outcome = "true") <=> (id \in DOMAIN budgets)
            /\ (last'.outcome = "false") <=> (id \notin DOMAIN budgets)
            /\ DOMAIN budgets' = DOMAIN budgets \ {id}
            /\ \A b \in DOMAIN budgets' : budgets'[b] = budgets[b]
            /\ categories' = categories
            /\ transactions' = transactions]_vars

\* A deleteTransaction that returned true on a store that held two
\* transactions, a category and a budget: the other transaction, the
\* category and the budget are still stored.
C25_Witness ==
    /\ last.op = "deleteTransaction"
    /\ last.outcome = "true"
    /\ Cardinality(DOMAIN transactions) = 1
    /\ nextTransactionId = 3
    /\ categories # EmptyTable
    /\ budgets # EmptyTable

\* C26: for a monthly budget with no end_date whose start day does not exist
\* in the following month (January 31), the effective end date is a valid
\* date inside the calendar month right after the start's month, never one
\* of the month after that; for a yearly budget with no end_date it is a
\* date in the start's month of the next year (February for February 29).
C26_EndDateStaysInTargetMonth ==
    last.op = "getBudgetStatus"
    => \A s \in Entries(last.value) :
          LET budget == budgets[s.id]
              start  == NewDate(budget.start_date)
              end    == s.end_date
          IN  budget.end_date = NULL
              => /\ 1 <= end.d
                 /\ end.d <= DaysInMonth(end.y, end.m)
                 /\ budget.period = "monthly"
                       => <<end.y, end.m>> =
                             IF start.m = 12 THEN <<start.y + 1, 1>>
                             ELSE <<start.y, start.m + 1>>
                 /\ budget.period = "yearly"
                       => end.y = start.y + 1 /\ end.m = start.m

\* C27: when handlers run one at a time, after any sequence of category,
\* transaction and budget create, update and delete calls every budget's
\* category_id references an existing category and every transaction's
\* category_id is null or references an existing category.
C27_ReferencesExist ==
    /\ \A b \in DOMAIN budgets : budgets[b].category_id \in DOMAIN categories
    /\ \A t \in DOMAIN transactions :
          \/ transactions[t].category_id = NULL
          \/ transactions[t].category_id \in DOMAIN categories

\* A deleteCategory has returned after nulling a transaction and deleting a
\* budget, while a budget-less second category and the transaction remain.
C27_Witness ==
    /\ last.op = "deleteCategory"
    /\ last.outcome = "true"
    /\ last.rows[2] = 1
    /\ last.rows[3] = 1
    /\ Cardinality(DOMAIN categories) = 1
    /\ Cardinality(DOMAIN transactions) = 1
    /\ budgets = EmptyTable

\* The categories that were created and have been deleted.
DeletedCategories == {c \in 1 .. (nextCategoryId - 1) : c \notin DOMAIN categories}

\* C28: when createBudget (or updateBudget, createTransaction,
\* updateTransaction) targeting category c runs concurrently with
\* deleteCategory(c), their store statements interleaved in any order, the
\* store reached after both complete holds no budget and no transaction
\* whose category_id references the deleted category.
C28_NoReferenceToDeletedCategory ==
    (inflight.createBudget = NotRunning /\ inflight.deleteCategory = NotRunning)
    => /\ \A b \in DOMAIN budgets : budgets[b].category_id \notin DeletedCategories
       /\ \A t \in DOMAIN transactions :
             transactions[t].category_id \notin DeletedCategories

\* The sum of total_amount over the first n entries of a breakdown.
RECURSIVE SumTotals(_, _)
SumTotals(list, n) ==
    IF n = 0 THEN 0 ELSE list[n].total_amount + SumTotals(list, n - 1)

\* C29: in every getFinancialReport result computed while no mutation runs
\* concurrently, the sum of total_amount over the entries of
\* expense_by_category equals total_expenses, also when some expenses are
\* uncategorized or reference a category that no longer exists.
C29_BreakdownSumsToTotal ==
    last.op = "getFinancialReport"
    => SumTotals(last.value.expense_by_category, Len(last.value.expense_by_category))
          = last.value.total_expenses

\* A report over two expenses, one uncategorized and one whose category has
\* been deleted, each in an entry of its own.
C29_Witness ==
    /\ last.op = "getFinancialReport"
    /\ last.value.total_expenses > 0
    /\ \E i \in DOMAIN last.value.expense_by_category :
          last.value.expense_by_category[i].category_id = NULL
    /\ \E i \in DOMAIN last.value.expense_by_category :
          /\ last.value.expense_by_category[i].category_id # NULL
          /\ last.value.expense_by_category[i].category_id \notin DOMAIN categories
          /\ last.value.expense_by_category[i].category_name = NullString
          /\ last.value.expense_by_category[i].total_amount > 0

====
